---- MODULE Spec2Model ----
(***************************************************************************)
(* Model of the websocket client of kalshi-rust                            *)
(* (src/kalshi/src/websockets/client.rs): the command dispatcher           *)
(* (subscribe / unsubscribe / update_subscription / close), the unbounded  *)
(* command queue, the supervisor task kalshi_ws_handler with its biased    *)
(* three-way select, and the broadcast channel towards the consumers.      *)
(***************************************************************************)
EXTENDS Integers, Sequences, FiniteSets, TLC

\* ------------------------------------------------------------------ bounds
\* external events of one connection: dispatcher calls (subscribe, unsubscribe,
\* update_subscription), receiver() calls, heartbeat ticks after the immediate
\* first one, and items delivered by the peer
MaxEvents == 3

\* the most requests one paginated fetch makes
MaxPages == 3

\* ------------------------------------------------------- program constants
\* capacity of the broadcast channel
Capacity == 1024
\* 2^16: a u32 is kept as its two 16-bit halves, of value hi * 2^16 + lo, so
\* that every value of the type, u32::MAX included, can be written down
Half == 65536

VARIABLES
    next_cmd_id,   \* KalshiWebsocketClient.next_cmd_id
    handle,        \* the client handle: "live", "closing" (inside close), "dropped"
    to_kalshi,     \* the unbounded command queue (sender side in the handle)
    pc,            \* supervisor position: "select", "cmd_write", "ping_write",
                   \* "exited" (break 'out), "panicked" (unwrap on a failed write)
    cur,           \* the command whose frame the supervisor is writing
    wire,          \* the frames written to the socket, in order
    tickDue,       \* the heartbeat interval has a tick ready
    missed,        \* further periods that elapsed while that tick was waiting
    events,        \* external events so far (bounded by MaxEvents)
    inbound,       \* items the socket has ready for the supervisor to read
    sent,          \* every value sent on the broadcast channel from_kalshi_tx
    consumers,     \* receivers obtained from receiver(): state, index in sent of the
                   \* first value they can see (from) and of the next they read
                   \* (pos), number of values their recv returned (n), index of the
                   \* last of them (got), number of values reported as lost (skipped)
    ncalls,        \* dispatcher calls made so far
    lastCall,      \* the last dispatcher call and its result
    returned,      \* the ids returned by the successful calls, in order
    enq,           \* every command ever enqueued, in order
    errs,          \* transport errors that occurred, in order
    pings,         \* the payloads of the peer's pings the supervisor read, in order
    stopAttached,  \* the consumers attached when the supervisor task stopped
    signing,       \* a call of api_key_headers or of generate_auth_headers: its
                   \* arguments, the clock value it reads, and what it returns
    kalshi,        \* the Kalshi instance: its urls, curr_token and auth
    conn,          \* a call of KalshiWebsocketClient::connect: what it did so far
    fetch          \* a paginated fetch: its params, its requests, what it yielded

vars == <<next_cmd_id, handle, to_kalshi, pc, cur, wire, tickDue, missed, events,
          inbound, sent, consumers, ncalls, lastCall, returned, enq, errs, pings,
          stopAttached, signing, kalshi, conn, fetch>>

\* ------------------------------------------------------------- u32 values
U32(hi, lo) == [hi |-> hi, lo |-> lo]

\* next_cmd_id: 1 in KalshiWebsocketClient::connect
FirstCmdId == U32(0, 1)

\* ---------------------------------------------------------------- channels
KalshiChannel == {"OrderbookDelta", "Ticker", "Trade", "Fill", "MarketLifecycleV2"}

\* a naming that gives two channels one wire-name
as_str_merged(ch) ==
    CASE ch = "OrderbookDelta" -> "orderbook_delta"
      [] ch = "Ticker" -> "ticker"
      [] ch = "Trade" -> "ticker"
      [] ch = "Fill" -> "fill"
      [] ch = "MarketLifecycleV2" -> "market_lifecycle_v2"

\* KalshiChannel::as_str / serde rename_all = "snake_case"
as_str(ch) ==
    CASE ch = "OrderbookDelta" -> "orderbook_delta"
      [] ch = "Ticker" -> "ticker"
      [] ch = "Trade" -> "trade"
      [] ch = "Fill" -> "fill"
      [] ch = "MarketLifecycleV2" -> "market_lifecycle_v2"

\* Vec::contains
Contains(v, x) == \E i \in 1..Len(v) : v[i] = x

\* ---------------------------------------------------------------- commands
NoCmd == [cmd |-> "none"]
End == [cmd |-> "End"]

SubscribeCmd(id, channels, market_tickers) ==
    [cmd |-> "Subscribe", id |-> id,
     params |-> [channels |-> channels, market_tickers |-> market_tickers]]

UnsubscribeCmd(id, sids) ==
    [cmd |-> "Unsubscribe", id |-> id, params |-> [sids |-> sids]]

UpdateSubscriptionCmd(id, sid, market_tickers, action) ==
    [cmd |-> "UpdateSubscription", id |-> id,
     params |-> [action |-> action, market_tickers |-> market_tickers, sids |-> <<sid>>]]

\* serde: #[serde(tag = "cmd")] #[serde(rename_all = "snake_case")]
SnakeCase(name) ==
    CASE name = "Subscribe" -> "subscribe"
      [] name = "UpdateSubscription" -> "update_subscription"
      [] name = "Unsubscribe" -> "unsubscribe"
      [] name = "End" -> "end"
      [] name = "AddMarkets" -> "add_markets"
      [] name = "DeleteMarkets" -> "delete_markets"

\* serde_json::to_string(&cmd): the JSON object of a command. Every variant
\* serializes, the unit variant End too (as {"cmd":"end"}).
to_string(c) ==
    CASE c.cmd = "Subscribe" ->
            [cmd |-> SnakeCase(c.cmd), id |-> c.id,
             params |-> [channels |-> [i \in 1..Len(c.params.channels) |->
                                          as_str(c.params.channels[i])],
                         market_tickers |-> c.params.market_tickers]]
      [] c.cmd = "Unsubscribe" ->
            [cmd |-> SnakeCase(c.cmd), id |-> c.id, params |-> c.params]
      [] c.cmd = "UpdateSubscription" ->
            [cmd |-> SnakeCase(c.cmd), id |-> c.id,
             params |-> [action |-> SnakeCase(c.params.action),
                         market_tickers |-> c.params.market_tickers,
                         sids |-> c.params.sids]]
      [] c.cmd = "End" -> [cmd |-> SnakeCase(c.cmd)]

TextFrame(json) == [kind |-> "Text", json |-> json]
\* Message::Ping(payload), Message::Pong(payload), Message::Close(_)
Ping(data) == [kind |-> "Ping", data |-> data]
Pong(data) == [kind |-> "Pong", data |-> data]
CloseFrame == [kind |-> "Close"]
\* the heartbeat: Message::Ping(vec![])
PingFrame == Ping(<<>>)
\* the socket yields Err(e) instead of a message
ReadError == [kind |-> "Err"]

\* ------------------------------------------------------------ JSON values
\* a JSON value carries its kind: an integral number, a number with a
\* fraction (of which only the integral part is kept), a string, a boolean,
\* null, an array, an object (a function from its keys to its values)
JNum(n) == [t |-> "num", v |-> n]
JFloat(n) == [t |-> "float", v |-> n]
JStr(s) == [t |-> "str", v |-> s]
JBool(b) == [t |-> "bool", v |-> b]
JNull == [t |-> "null"]
JArr(a) == [t |-> "arr", v |-> a]
JObj(o) == [t |-> "obj", v |-> o]
\* an object as its text writes it: pairs is the sequence of its members,
\* <<key, value>> each, and order keeps the keys in the order of the text
JObjOrd(pairs) ==
    [t |-> "obj",
     v |-> [k \in {pairs[i][1] : i \in DOMAIN pairs} |->
               pairs[CHOOSE i \in DOMAIN pairs : pairs[i][1] = k][2]],
     order |-> [i \in DOMAIN pairs |-> pairs[i][1]]]
\* an integral number and a number with a fraction too large for the
\* integers of the checker: the digits are kept as they are written
JBigNum(digits) == [t |-> "num", v |-> digits]
JBigFloat(digits) == [t |-> "float", v |-> digits]

\* ------------------------------------------------- serde::Deserialize types
TU32 == [k |-> "u32"]
TI32 == [k |-> "i32"]
TF64 == [k |-> "f64"]
TString == [k |-> "string"]
TBool == [k |-> "bool"]
\* serde_json::Value
TValue == [k |-> "value"]
TOption(ty) == [k |-> "option", of |-> ty]
TVec(ty) == [k |-> "vec", of |-> ty]
\* a tuple, read from an array of exactly that length
TTuple(tys) == [k |-> "tuple", of |-> tys]
\* a unit-variant enum: names maps each wire name to its variant
TEnum(names) == [k |-> "enum", names |-> names]
TStruct(fields) == [k |-> "struct", fields |-> fields]
\* #[serde(tag = ...)]: variants maps each wire tag to [name, fields]
TTagged(tag, variants) == [k |-> "tagged", tag |-> tag, variants |-> variants]

None == [some |-> FALSE]
Some(v) == [some |-> TRUE, v |-> v]

RECURSIVE Fits(_, _), StructFits(_, _), Conv(_, _), StructConv(_, _)

\* a tag that is found only as the first member of the object
TagPresent_first(tag, j) ==
    /\ "order" \in DOMAIN j
    /\ j.order /= <<>>
    /\ j.order[1] = tag

\* the tag of an internally tagged enum is looked for among all the members
\* of the object, which serde buffers before it reads the variant
TagPresent(tag, j) == tag \in DOMAIN j.v

\* the members of the object without the tag: the content of the variant
Untagged(tag, o) == [k \in DOMAIN o \ {tag} |-> o[k]]

\* the value deserializes into the type
Fits(ty, j) ==
    CASE ty.k = "u32" -> j.t = "num" /\ j.v >= 0
      [] ty.k = "i32" -> j.t = "num"
      [] ty.k = "f64" -> j.t \in {"num", "float"}
      [] ty.k = "string" -> j.t = "str"
      [] ty.k = "bool" -> j.t = "bool"
      [] ty.k = "value" -> TRUE
      [] ty.k = "option" -> j.t = "null" \/ Fits(ty.of, j)
      [] ty.k = "vec" -> j.t = "arr" /\ \A i \in DOMAIN j.v : Fits(ty.of, j.v[i])
      [] ty.k = "tuple" -> /\ j.t = "arr"
                           /\ Len(j.v) = Len(ty.of)
                           /\ \A i \in DOMAIN j.v : Fits(ty.of[i], j.v[i])
      [] ty.k = "enum" -> j.t = "str" /\ j.v \in DOMAIN ty.names
      [] ty.k = "struct" -> j.t = "obj" /\ StructFits(ty.fields, j.v)
      [] ty.k = "tagged" ->
            /\ j.t = "obj"
            /\ TagPresent(ty.tag, j)
            /\ j.v[ty.tag].t = "str"
            /\ j.v[ty.tag].v \in DOMAIN ty.variants
            /\ StructFits(ty.variants[j.v[ty.tag].v].fields, Untagged(ty.tag, j.v))

\* a struct that refuses every key that is none of its fields
StructFits_denyUnknown(fields, o) ==
    /\ DOMAIN o \subseteq DOMAIN fields
    /\ \A f \in DOMAIN fields :
           IF f \in DOMAIN o THEN Fits(fields[f], o[f]) ELSE fields[f].k = "option"

\* every field of the struct is present and fits, or is an absent Option;
\* keys of the object that are no field of the struct are ignored
StructFits(fields, o) ==
    \A f \in DOMAIN fields :
        IF f \in DOMAIN o THEN Fits(fields[f], o[f]) ELSE fields[f].k = "option"

\* the Rust value a fitting JSON value deserializes to
Conv(ty, j) ==
    CASE ty.k = "u32" -> U32(j.v \div Half, j.v % Half)
      [] ty.k \in {"i32", "f64", "string", "bool"} -> j.v
      [] ty.k = "value" -> j
      [] ty.k = "option" -> IF j.t = "null" THEN None ELSE Some(Conv(ty.of, j))
      [] ty.k = "vec" -> [i \in DOMAIN j.v |-> Conv(ty.of, j.v[i])]
      [] ty.k = "tuple" -> [i \in DOMAIN j.v |-> Conv(ty.of[i], j.v[i])]
      [] ty.k = "enum" -> ty.names[j.v]
      [] ty.k = "struct" -> StructConv(ty.fields, j.v)
      [] ty.k = "tagged" ->
            [variant |-> ty.variants[j.v[ty.tag].v].name,
             fields |-> StructConv(ty.variants[j.v[ty.tag].v].fields, j.v)]

StructConv(fields, o) ==
    [f \in DOMAIN fields |-> IF f \in DOMAIN o THEN Conv(fields[f], o[f]) ELSE None]

\* -------------------------------------------------------------- responses
\* KalshiChannel as Deserialize: the snake_case names of the variants
ChannelNames == [w \in {as_str(ch) : ch \in KalshiChannel} |->
                    CHOOSE ch \in KalshiChannel : as_str(ch) = w]

KalshiSide == TEnum([yes |-> "Yes", no |-> "No"])

KalshiOrderbookSubscribedMessage ==
    TStruct([channel |-> TEnum(ChannelNames), sid |-> TU32])

KalshiOrderbookErrorMessage == TStruct([code |-> TU32, msg |-> TString])

KalshiOrderbookSnapshotMessage ==
    TStruct([market_ticker |-> TString,
             yes |-> TOption(TVec(TTuple(<<TU32, TI32>>))),
             no |-> TOption(TVec(TTuple(<<TU32, TI32>>)))])

KalshiOrderbookDeltaMessage ==
    TStruct([delta |-> TI32, price |-> TU32, side |-> TString,
             client_order_id |-> TOption(TString)])

KalshiTickerMessage ==
    TStruct([market_ticker |-> TString, price |-> TU32, yes_bid |-> TU32,
             yes_ask |-> TU32, volume |-> TU32, open_interest |-> TU32,
             dollar_volume |-> TU32, dollar_open_interest |-> TU32, ts |-> TU32])

KalshiTradeMessage ==
    TStruct([market_ticker |-> TString, yes_price |-> TU32, no_price |-> TU32,
             count |-> TU32, taker_side |-> KalshiSide, ts |-> TU32])

KalshiFillMessage ==
    TStruct([trade_id |-> TString, order_id |-> TString, market_ticker |-> TString,
             is_taker |-> TBool, side |-> KalshiSide, yes_price |-> TU32,
             no_price |-> TU32, count |-> TU32, action |-> TString, ts |-> TU32,
             client_order_id |-> TOption(TString), post_position |-> TU32,
             purchased_side |-> KalshiSide])

MarketLifecycleAdditionalMetadata ==
    TStruct([name |-> TString, title |-> TString, yes_sub_title |-> TString,
             no_sub_title |-> TString, rules_primary |-> TString,
             rules_secondary |-> TString, can_close_early |-> TBool,
             event_ticker |-> TOption(TString), expected_expiration_ts |-> TU32,
             strike_type |-> TOption(TString), floor_strike |-> TOption(TF64),
             cap_strike |-> TOption(TBool), custom_strike |-> TOption(TValue)])

\* #[serde(tag = "event_type")] #[serde(rename_all = "snake_case")]
KalshiMarketLifecycleMessage ==
    TTagged("event_type",
        [created |-> [name |-> "Created",
                      fields |-> [market_ticker |-> TString, open_ts |-> TU32,
                                  close_ts |-> TU32,
                                  additional_metadata |->
                                      MarketLifecycleAdditionalMetadata]],
         activated |-> [name |-> "Activated",
                        fields |-> [market_ticker |-> TString,
                                    is_deactivated |-> TBool]],
         deactivated |-> [name |-> "Deactivated",
                          fields |-> [market_ticker |-> TString,
                                      is_deactivated |-> TBool]],
         close_date_updated |-> [name |-> "CloseDateUpdated",
                                 fields |-> [market_ticker |-> TString,
                                             close_ts |-> TU32]],
         determined |-> [name |-> "Determined",
                         fields |-> [market_ticker |-> TString, result |-> TString,
                                     determination_ts |-> TU32]],
         settled |-> [name |-> "Settled",
                      fields |-> [market_ticker |-> TString, settled_ts |-> TU32]]])

KalshiEventLifecycleMessage ==
    TStruct([event_ticker |-> TString, title |-> TString, subtitle |-> TString,
             collateral_return_type |-> TString, series_ticker |-> TString,
             strike_date |-> TOption(TU32), strike_period |-> TOption(TString)])

\* #[serde(tag = "type")] #[serde(rename_all = "snake_case")]
KalshiWebsocketResponse ==
    TTagged("type",
        [orderbook_snapshot |->
             [name |-> "OrderbookSnapshot",
              fields |-> [sid |-> TU32, seq |-> TU32,
                          msg |-> KalshiOrderbookSnapshotMessage]],
         orderbook_delta |->
             [name |-> "OrderbookDelta",
              fields |-> [sid |-> TU32, seq |-> TU32,
                          msg |-> KalshiOrderbookDeltaMessage]],
         ticker |-> [name |-> "Ticker",
                     fields |-> [sid |-> TU32, msg |-> KalshiTickerMessage]],
         trade |-> [name |-> "Trade",
                    fields |-> [sid |-> TU32, msg |-> KalshiTradeMessage]],
         fill |-> [name |-> "Fill",
                   fields |-> [sid |-> TU32, msg |-> KalshiFillMessage]],
         event_lifecycle |->
             [name |-> "EventLifecycle",
              fields |-> [sid |-> TU32, msg |-> KalshiEventLifecycleMessage]],
         market_lifecycle_v2 |->
             [name |-> "MarketLifecycleV2",
              fields |-> [sid |-> TU32, msg |-> KalshiMarketLifecycleMessage]],
         subscribed |-> [name |-> "Subscribed",
                         fields |-> [msg |-> KalshiOrderbookSubscribedMessage]],
         error |-> [name |-> "Error",
                    fields |-> [id |-> TU32, msg |-> KalshiOrderbookErrorMessage]],
         ok |-> [name |-> "Ok",
                 fields |-> [id |-> TU32, sid |-> TU32, seq |-> TU32,
                             market_tickers |-> TVec(TString)]]])

\* serde_json::from_str::<KalshiWebsocketResponse>(&text) on a text that is
\* the JSON value json
from_str(json) ==
    IF Fits(KalshiWebsocketResponse, json)
    THEN [ok |-> TRUE, val |-> Conv(KalshiWebsocketResponse, json)]
    ELSE [ok |-> FALSE]

\* ------------------------------------------------------------------ inputs
\* subscribe arguments: <<channels, market_tickers>>
SubscribeInputs == {<<<<"OrderbookDelta">>, <<>>>>,
                    <<<<"Ticker", "OrderbookDelta">>, <<>>>>,
                    <<<<"Ticker">>, <<>>>>,
                    <<<<"OrderbookDelta">>, <<"M1">>>>}
\* subscriptions to each channel alone, and to all of them at once
AllChannels == <<"OrderbookDelta", "Ticker", "Trade", "Fill", "MarketLifecycleV2">>
ChannelInputs ==
    {<<<<ch>>, <<"M1">>>> : ch \in KalshiChannel} \cup {<<AllChannels, <<"M1">>>>}
UpdateTickerLists == {<<"M1">>}
SidLists == {<<1>>}
Sids == {1}
Actions == {"AddMarkets"}
\* inbound texts: the trade frame of test_trade_message, and a frame of a
\* type the client does not know
TradeMsg ==
    [trade_id |-> JStr("5b0276ef-7715-46f2-56d8-a1c7b9e59e58"),
     market_ticker |-> JStr("KXHIGHCHI-25OCT02-B80.5"),
     yes_price |-> JNum(27), no_price |-> JNum(73),
     yes_price_dollars |-> JStr("0.2700"), no_price_dollars |-> JStr("0.7300"),
     count |-> JNum(7), taker_side |-> JStr("yes"), ts |-> JNum(1759350609)]
TradeText ==
    JObj([type |-> JStr("trade"), sid |-> JNum(1), seq |-> JNum(16),
          msg |-> JObj(TradeMsg)])
UnknownTypeText == JObj([type |-> JStr("heartbeat"), sid |-> JNum(1)])
\* a market_lifecycle_v2 frame whose event_type names no variant
UnknownEventTypeText ==
    JObj([type |-> JStr("market_lifecycle_v2"), sid |-> JNum(1),
          msg |-> JObj([market_ticker |-> JStr("M1"), event_type |-> JStr("paused")])])
\* trade frames whose payload is not a KalshiTradeMessage: a price that is a
\* string, and no count
StringPriceTradeText ==
    JObj([type |-> JStr("trade"), sid |-> JNum(1),
          msg |-> JObj([TradeMsg EXCEPT !.yes_price = JStr("27")])])
NoCountTradeText ==
    JObj([type |-> JStr("trade"), sid |-> JNum(1),
          msg |-> JObj([f \in DOMAIN TradeMsg \ {"count"} |-> TradeMsg[f]])])
\* the frame of test_market_lifecycle_determined
DeterminedText ==
    JObj([type |-> JStr("market_lifecycle_v2"), sid |-> JNum(1),
          msg |-> JObj([market_ticker |-> JStr("KXMLBGAME-25OCT01DETCLE-DET"),
                        determination_ts |-> JNum(1759350638), result |-> JStr("no"),
                        event_type |-> JStr("determined")])])
\* the server's answers to the command with id 1
SubscribedText ==
    JObj([id |-> JNum(1), type |-> JStr("subscribed"),
          msg |-> JObj([channel |-> JStr("ticker"), sid |-> JNum(5)])])
OkText ==
    JObj([id |-> JNum(1), type |-> JStr("ok"), sid |-> JNum(5), seq |-> JNum(0),
          market_tickers |-> JArr(<<>>)])
ErrorText ==
    JObj([id |-> JNum(1), type |-> JStr("error"),
          msg |-> JObj([code |-> JNum(6), msg |-> JStr("Already subscribed")])])
\* what the socket yields: Ok(Message::Text) that decodes or does not,
\* Ok(Message::Close), Ok(any other message), Err(transport error)
InboundItems == {TextFrame(TradeText), TextFrame(UnknownTypeText), CloseFrame,
                 Ping(<<7>>), ReadError}
\* the same and further texts, for a connection whose caller stays idle
DemuxItems ==
    InboundItems \cup {TextFrame(t) : t \in {UnknownEventTypeText, StringPriceTradeText,
                                              NoCountTradeText, DeterminedText,
                                              SubscribedText, OkText, ErrorText}}
ConsumerIds == {1, 2}

\* ---------------------------------------------------- texts to be decoded
\* a frame of the server: the members of head, then msg with the members of
\* payload
Framed(head, payload) == JObjOrd(head \o <<<<"msg", JObjOrd(payload)>>>>)

\* one frame of every type, carrying the fields of its variant and no other
\* member; the trade, ticker and event_lifecycle frames are those of
\* test_trade_message, test_ticker_message and test_event_lifecycle_deserialization
\* without the members their structs do not name
PlainSnapshotText ==
    Framed(<<<<"type", JStr("orderbook_snapshot")>>, <<"sid", JNum(2)>>,
             <<"seq", JNum(1)>>>>,
           <<<<"market_ticker", JStr("M1")>>,
             <<"yes", JArr(<<JArr(<<JNum(27), JNum(100)>>)>>)>>>>)
PlainDeltaText ==
    Framed(<<<<"type", JStr("orderbook_delta")>>, <<"sid", JNum(2)>>,
             <<"seq", JNum(2)>>>>,
           <<<<"price", JNum(27)>>, <<"delta", JNum(-5)>>, <<"side", JStr("yes")>>>>)
PlainTickerText ==
    Framed(<<<<"type", JStr("ticker")>>, <<"sid", JNum(1)>>>>,
           <<<<"market_ticker", JStr("KXNFLFIRSTTD-25OCT05NYGNO-NOSRATTLER2")>>,
             <<"price", JNum(0)>>, <<"yes_bid", JNum(0)>>, <<"yes_ask", JNum(3)>>,
             <<"volume", JNum(0)>>, <<"open_interest", JNum(0)>>,
             <<"dollar_volume", JNum(0)>>, <<"dollar_open_interest", JNum(0)>>,
             <<"ts", JNum(1759351915)>>>>)
PlainTradeText ==
    Framed(<<<<"type", JStr("trade")>>, <<"sid", JNum(1)>>>>,
           <<<<"market_ticker", JStr("KXHIGHCHI-25OCT02-B80.5")>>,
             <<"yes_price", JNum(27)>>, <<"no_price", JNum(73)>>,
             <<"count", JNum(7)>>, <<"taker_side", JStr("yes")>>,
             <<"ts", JNum(1759350609)>>>>)
PlainFillText ==
    Framed(<<<<"type", JStr("fill")>>, <<"sid", JNum(3)>>>>,
           <<<<"trade_id", JStr("d91bc706-ee49-470d-82d8-11418bda6fed")>>,
             <<"order_id", JStr("ee587a1c-8b87-4dcf-b721-9f6f790619fa")>>,
             <<"market_ticker", JStr("M1")>>, <<"is_taker", JBool(TRUE)>>,
             <<"side", JStr("no")>>, <<"yes_price", JNum(75)>>,
             <<"no_price", JNum(25)>>, <<"count", JNum(278)>>,
             <<"action", JStr("buy")>>, <<"ts", JNum(1671899397)>>,
             <<"post_position", JNum(500)>>, <<"purchased_side", JStr("no")>>>>)
PlainEventLifecycleText ==
    Framed(<<<<"type", JStr("event_lifecycle")>>, <<"sid", JNum(1)>>>>,
           <<<<"event_ticker", JStr("KXTECHLAYOFF-25SEP")>>,
             <<"title", JStr("Tech layoffs up in Sep 2025?")>>,
             <<"subtitle", JStr("")>>, <<"collateral_return_type", JStr("")>>,
             <<"series_ticker", JStr("")>>>>)
PlainSubscribedText ==
    Framed(<<<<"type", JStr("subscribed")>>>>,
           <<<<"channel", JStr("ticker")>>, <<"sid", JNum(5)>>>>)
PlainErrorText ==
    Framed(<<<<"id", JNum(1)>>, <<"type", JStr("error")>>>>,
           <<<<"code", JNum(6)>>, <<"msg", JStr("Already subscribed")>>>>)
PlainOkText ==
    JObjOrd(<<<<"id", JNum(1)>>, <<"sid", JNum(5)>>, <<"seq", JNum(0)>>,
              <<"type", JStr("ok")>>, <<"market_tickers", JArr(<<JStr("M1")>>)>>>>)

\* the frames of test_trade_message and test_ticker_message as they are
\* written, with the members no struct names: seq, trade_id, market_id, the
\* *_dollars prices and Clock
TradeTestText ==
    Framed(<<<<"type", JStr("trade")>>, <<"sid", JNum(1)>>, <<"seq", JNum(16)>>>>,
           <<<<"trade_id", JStr("5b0276ef-7715-46f2-56d8-a1c7b9e59e58")>>,
             <<"market_ticker", JStr("KXHIGHCHI-25OCT02-B80.5")>>,
             <<"yes_price", JNum(27)>>, <<"no_price", JNum(73)>>,
             <<"yes_price_dollars", JStr("0.2700")>>,
             <<"no_price_dollars", JStr("0.7300")>>,
             <<"count", JNum(7)>>, <<"taker_side", JStr("yes")>>,
             <<"ts", JNum(1759350609)>>>>)
TickerTestText ==
    Framed(<<<<"type", JStr("ticker")>>, <<"sid", JNum(1)>>>>,
           <<<<"market_id", JStr("4ec1095a-e401-4898-b951-e5e9876d0afd")>>,
             <<"market_ticker", JStr("KXNFLFIRSTTD-25OCT05NYGNO-NOSRATTLER2")>>,
             <<"price", JNum(0)>>, <<"yes_bid", JNum(0)>>, <<"yes_ask", JNum(3)>>,
             <<"price_dollars", JStr("")>>, <<"yes_bid_dollars", JStr("0.0000")>>,
             <<"yes_ask_dollars", JStr("0.0300")>>, <<"volume", JNum(0)>>,
             <<"open_interest", JNum(0)>>, <<"dollar_volume", JNum(0)>>,
             <<"dollar_open_interest", JNum(0)>>, <<"ts", JNum(1759351915)>>,
             <<"Clock", JBigNum("4117569085")>>>>)

\* members that no variant and no payload struct names but the ones that do
\* name them: they are added to a frame, and to its payload, where the
\* object does not carry the key already
FrameExtras == <<<<"seq", JNum(16)>>, <<"id", JNum(9)>>>>
PayloadExtras ==
    <<<<"trade_id", JStr("5b0276ef-7715-46f2-56d8-a1c7b9e59e58")>>,
      <<"yes_price_dollars", JStr("0.2700")>>,
      <<"price_dollars", JStr("")>>,
      <<"Clock", JBigNum("4117569085")>>>>

\* the object with those of the members of pairs it does not have yet,
\* written after its own
WithMembers(j, pairs) ==
    LET fresh == SelectSeq(pairs, LAMBDA pr : pr[1] \notin DOMAIN j.v)
        added == JObjOrd(fresh)
    IN  [t |-> "obj",
         v |-> [k \in DOMAIN j.v \cup DOMAIN added.v |->
                   IF k \in DOMAIN j.v THEN j.v[k] ELSE added.v[k]],
         order |-> j.order \o added.order]

WithExtras(json) ==
    LET framed == WithMembers(json, FrameExtras)
    IN  IF "msg" \in DOMAIN json.v
        THEN [framed EXCEPT !.v.msg = WithMembers(@, PayloadExtras)]
        ELSE framed

PlainTexts ==
    {PlainSnapshotText, PlainDeltaText, PlainTickerText, PlainTradeText,
     PlainFillText, PlainEventLifecycleText, PlainSubscribedText, PlainErrorText,
     PlainOkText}

\* market_lifecycle_v2 frames. The members of each frame before msg, and the
\* members of its payload but event_type, are those of the tests
\* test_market_lifecycle_determined, _settled, _close_date_updated and
\* _deactivated; no test has an activated frame, which is written after the
\* deactivated one
LifecycleEvents ==
    {"activated", "deactivated", "close_date_updated", "determined", "settled"}
LifecycleHead ==
    [activated |-> <<<<"type", JStr("market_lifecycle_v2")>>, <<"sid", JNum(1)>>,
                     <<"seq", JNum(6)>>>>,
     deactivated |-> <<<<"type", JStr("market_lifecycle_v2")>>, <<"sid", JNum(1)>>,
                       <<"seq", JNum(7)>>>>,
     close_date_updated |-> <<<<"type", JStr("market_lifecycle_v2")>>,
                              <<"sid", JNum(1)>>, <<"seq", JNum(43)>>>>,
     determined |-> <<<<"type", JStr("market_lifecycle_v2")>>, <<"sid", JNum(1)>>>>,
     settled |-> <<<<"type", JStr("market_lifecycle_v2")>>, <<"sid", JNum(1)>>,
                   <<"seq", JNum(1)>>>>]
LifecyclePayload ==
    [activated |->
         <<<<"market_ticker", JStr("KXNFLFIRSTTD-25OCT05MIACAR-CARCHUBBARD30")>>,
           <<"is_deactivated", JBool(FALSE)>>>>,
     deactivated |->
         <<<<"market_ticker", JStr("KXNFLFIRSTTD-25OCT05MIACAR-CARCHUBBARD30")>>,
           <<"is_deactivated", JBool(TRUE)>>>>,
     close_date_updated |->
         <<<<"market_ticker", JStr("KXMLBWINS-NYM-25-T80")>>,
           <<"close_ts", JNum(1759353839)>>>>,
     determined |->
         <<<<"market_ticker", JStr("KXMLBGAME-25OCT01DETCLE-DET")>>,
           <<"determination_ts", JNum(1759350638)>>, <<"result", JStr("no")>>>>,
     settled |->
         <<<<"market_ticker", JStr("KXMLBTOTAL-25OCT01DETCLE-5")>>,
           <<"settled_ts", JNum(1759351985)>>>>]

\* the members with x written as the k-th of them
InsertAt(pairs, k, x) == SubSeq(pairs, 1, k - 1) \o <<x>> \o SubSeq(pairs, k, Len(pairs))

\* the frame of the event with event_type as the k-th member of its payload
LifecycleText(event_type, k) ==
    Framed(LifecycleHead[event_type],
           InsertAt(LifecyclePayload[event_type], k,
                    <<"event_type", JStr(event_type)>>))

\* the three frames of test_market_lifecycle_created: seq, the members of
\* the payload before additional_metadata, and the members of
\* additional_metadata (rules_secondary is cut to its first sentence)
CreatedCases ==
    <<[seq |-> 29,
       payload |-> <<<<"market_ticker", JStr("KXWTAMATCH-25OCT02LYSGAU-LYS")>>,
                     <<"open_ts", JNum(1759352700)>>,
                     <<"close_ts", JNum(1760598000)>>>>,
       metadata |->
           <<<<"name", JStr("Eva Lys")>>,
             <<"title", JStr("Will Eva Lys win the Lys vs Gauff match?")>>,
             <<"yes_sub_title", JStr("Eva Lys")>>,
             <<"no_sub_title", JStr("Eva Lys")>>,
             <<"rules_primary", JStr("If Eva Lys wins the Lys vs Gauff professional tennis match in the 2025 WTA Beijing quarterfinal after a ball has been played, then the market resolves to Yes.")>>,
             <<"rules_secondary", JStr("The following market refers to the Lys vs Gauff professional tennis match in the 2025 WTA Beijing quarterfinal after a ball has been played.")>>,
             <<"can_close_early", JBool(TRUE)>>,
             <<"event_ticker", JStr("KXWTAMATCH-25OCT02LYSGAU")>>,
             <<"expected_expiration_ts", JNum(1759399200)>>,
             <<"strike_type", JStr("structured")>>,
             <<"custom_strike",
               JObjOrd(<<<<"tennis_competitor",
                           JStr("6c69f42c-5e27-4cfd-a9ea-8eb9fbb0bd12")>>>>)>>>>],
      [seq |-> 1239,
       payload |-> <<<<"market_ticker", JStr("KXSWIFTATTENDEVENT-25OCT04")>>,
                     <<"open_ts", JNum(1759375800)>>,
                     <<"close_ts", JNum(1759672800)>>>>,
       metadata |->
           <<<<"name", JStr("Yes")>>,
             <<"title", JStr("Will Taylor Swift attend Saturday Night Live Season 51 Premiere?")>>,
             <<"yes_sub_title", JStr("Yes")>>,
             <<"no_sub_title", JStr("Yes")>>,
             <<"rules_primary", JStr("If Taylor Swift attends Saturday Night Live Season 51 Premiere, then the market resolves to Yes.")>>,
             <<"rules_secondary", JStr("Attendance is confirmed if the person is reported present at the event by any Source Agency, including social media posts by the person themselves.")>>,
             <<"can_close_early", JBool(TRUE)>>,
             <<"event_ticker", JStr("KXSWIFTATTENDEVENT-25OCT04")>>,
             <<"expected_expiration_ts", JNum(1759672800)>>>>],
      [seq |-> 956,
       payload |-> <<<<"market_ticker", JStr("KXFDVLIGHTER-25DEC31-8")>>,
                     <<"open_ts", JNum(1759521600)>>,
                     <<"close_ts", JNum(1767200340)>>>>,
       metadata |->
           <<<<"name", JStr("$8,000,000,000+")>>,
             <<"title", JStr("What will Lighter FDV be at 10:00 AM ET 1 day after launch?")>>,
             <<"yes_sub_title", JStr("$8,000,000,000+")>>,
             <<"no_sub_title", JStr("$8,000,000,000+")>>,
             <<"rules_primary", JStr("If Lighter (X)'s fully diluted valuation (FDV) as displayed on CoinGecko is above 7999999999.99 at exactly 10:00 AM on the date of the launch, then the market resolves to Yes.")>>,
             <<"rules_secondary", JStr("The FDV must be the value shown in the \"FDV\" field on the coin's main CoinGecko page, not calculated from other metrics.")>>,
             <<"can_close_early", JBool(TRUE)>>,
             <<"event_ticker", JStr("KXFDVLIGHTER-25DEC31")>>,
             <<"expected_expiration_ts", JNum(1767200400)>>,
             <<"strike_type", JStr("greater")>>,
             <<"floor_strike", JBigFloat("7999999999.99")>>>>]>>

\* the fields of MarketLifecycleAdditionalMetadata that are an Option
OptionalMetadata ==
    {"event_ticker", "strike_type", "floor_strike", "cap_strike", "custom_strike"}

\* the members but those with one of the keys
Dropping(pairs, keys) == SelectSeq(pairs, LAMBDA pr : pr[1] \notin keys)

\* the created frame of case c without the optional metadata named in
\* dropped, with event_type as the k-th member of its payload; the tests
\* write it as the last one
CreatedText(c, dropped, k) ==
    Framed(<<<<"type", JStr("market_lifecycle_v2")>>, <<"sid", JNum(1)>>,
             <<"seq", JNum(CreatedCases[c].seq)>>>>,
           InsertAt(CreatedCases[c].payload \o
                        <<<<"additional_metadata",
                            JObjOrd(Dropping(CreatedCases[c].metadata, dropped))>>>>,
                    k, <<"event_type", JStr("created")>>))

CreatedTexts ==
    {CreatedText(c, dropped, k) :
         c \in DOMAIN CreatedCases, dropped \in SUBSET OptionalMetadata,
         k \in {1, 3, 5}}

LifecycleTexts ==
    {LifecycleText(e, k) : e \in LifecycleEvents, k \in 1..3}
    \cup {LifecycleText("determined", 4)}
    \cup CreatedTexts

\* the texts to be decoded: a frame of every type, plain and with members its
\* type does not name, the frames of the tests, the lifecycle frames
DecodeTexts ==
    PlainTexts \cup {WithExtras(p) : p \in PlainTexts}
    \cup {TradeTestText, TickerTestText} \cup LifecycleTexts

\* ---------------------------------------------------------------- signing
\* the decimal digits, and `{ts}`: Display of an unsigned integer
Digit(d) ==
    CASE d = 0 -> "0" [] d = 1 -> "1" [] d = 2 -> "2" [] d = 3 -> "3" [] d = 4 -> "4"
      [] d = 5 -> "5" [] d = 6 -> "6" [] d = 7 -> "7" [] d = 8 -> "8" [] d = 9 -> "9"

RECURSIVE Decimal(_)
Decimal(n) == IF n < 10 THEN Digit(n) ELSE Decimal(n \div 10) \o Digit(n % 10)

\* a message with its parts set apart by blanks
msg_string_spaced(ts, method, path) ==
    Decimal(ts) \o " " \o method \o " " \o path

\* format!("{ts}{method}{path}"), method being Method::as_str
msg_string(ts, method, path) == Decimal(ts) \o method \o path

\* milliseconds since the epoch read by SystemTime::now(), shortened: values
\* of which one is the decimal prefix of another, and a value to the second
Timestamps == {1, 17, 175, 1759350609}
\* reqwest::Method: the standard methods, and extension methods, whose tokens
\* may hold digits
StandardMethods == {"GET", "POST", "PUT", "DELETE"}
ExtensionMethods == {"GE", "7GET"}
\* the paths the crate signs (get_api_path, extract_url_path), and a string
\* that is no URL path
ApiPaths == {"/trade-api/v2/markets", "/trade-api/ws/v2", "/trade-api/v2/markets/M1"}
OtherPaths == {"T/trade-api/v2/markets"}

SigningInputs ==
    [ts : Timestamps, method : StandardMethods \cup ExtensionMethods,
     path : ApiPaths \cup OtherPaths]

\* the characters a header value may hold: HeaderValue::from_str takes the
\* visible ASCII characters and the tab (the grave accent, which no string
\* of this module can hold, is left out)
VisibleAscii ==
    " !\"#$%&'()*+,-./0123456789:;<=>?@ABCDEFGHIJKLMNOPQRSTUVWXYZ[\\]^_abcdefghijklmnopqrstuvwxyz{|}~"

IsVisibleAscii(c) == c = "\t" \/ \E i \in 1..Len(VisibleAscii) : SubSeq(VisibleAscii, i, i) = c

ValidHeaderValue(s) == \A i \in 1..Len(s) : IsVisibleAscii(SubSeq(s, i, i))

\* HeaderName::try_from: a header name is kept in lower case
UpperCase == "ABCDEFGHIJKLMNOPQRSTUVWXYZ"
LowerCase == "abcdefghijklmnopqrstuvwxyz"

ToLower(c) ==
    IF \E i \in 1..Len(UpperCase) : SubSeq(UpperCase, i, i) = c
    THEN LET i == CHOOSE i \in 1..Len(UpperCase) : SubSeq(UpperCase, i, i) = c
         IN  SubSeq(LowerCase, i, i)
    ELSE c

RECURSIVE HeaderName(_)
HeaderName(s) ==
    IF s = "" THEN "" ELSE ToLower(SubSeq(s, 1, 1)) \o HeaderName(SubSeq(s, 2, Len(s)))

\* Result values: Ok carries the value, Err the error and nothing else
Ok(v) == [ok |-> TRUE, val |-> v]
Err(kind, msg) == [ok |-> FALSE, err |-> [kind |-> kind, msg |-> msg]]

\* the key ids a caller passes: one as the profile page shows them, and one
\* with a line break in it, which is no header value
KeyIds == {"f2f80a1c-3b6d", "f2f80a1c\n3b6d"}
\* what the signer returns, base64 encoded: RSA-PSS salts the signature, so
\* the same message has many signatures
Signatures == {"c2lnMQ==", "c2lnMg=="}
\* the outcomes of SystemTime::now().duration_since(UNIX_EPOCH) and of
\* Signer::sign_oneshot_to_vec
SignerOutcomes == {[ok |-> FALSE]} \cup [ok : {TRUE}, sig : Signatures]
Outcomes == [clock_ok : BOOLEAN, sign : SignerOutcomes]

\* api_key_headers that goes on without a signature when signing fails
api_key_headers_unsigned(key_id, ts, method, path, out) ==
    IF ~out.clock_ok
    THEN [res |-> Err("SystemTimeError", ""), signed |-> <<>>]
    ELSE [res |-> Ok(<<<<"KALSHI-ACCESS-KEY", key_id>>>>
                     \o (IF out.sign.ok
                         THEN <<<<"KALSHI-ACCESS-SIGNATURE", out.sign.sig>>>>
                         ELSE <<>>)
                     \o <<<<"KALSHI-ACCESS-TIMESTAMP", Decimal(ts)>>>>),
          signed |-> <<msg_string(ts, method, path)>>]

\* a version that reads the clock again for the timestamp header, a
\* millisecond after the reading it signed
api_key_headers_rereads(key_id, ts, method, path, out) ==
    IF ~out.clock_ok
    THEN [res |-> Err("SystemTimeError", ""), signed |-> <<>>]
    ELSE LET m == msg_string(ts, method, path)
         IN  IF ~out.sign.ok
             THEN [res |-> Err("ErrorStack", ""), signed |-> <<m>>]
             ELSE [res |-> Ok(<<<<"KALSHI-ACCESS-KEY", key_id>>,
                                <<"KALSHI-ACCESS-SIGNATURE", out.sign.sig>>,
                                <<"KALSHI-ACCESS-TIMESTAMP", Decimal(ts + 1)>>>>),
                   signed |-> <<m>>]

\* api_key_headers: what it returns (res), and the messages it handed to the
\* signer (signed). Each `?` returns before the first push
api_key_headers(key_id, ts, method, path, out) ==
    IF ~out.clock_ok
    THEN [res |-> Err("SystemTimeError", ""), signed |-> <<>>]
    ELSE LET m == msg_string(ts, method, path)
         IN  IF ~out.sign.ok
             THEN [res |-> Err("ErrorStack", ""), signed |-> <<m>>]
             ELSE [res |-> Ok(<<<<"KALSHI-ACCESS-KEY", key_id>>,
                                <<"KALSHI-ACCESS-SIGNATURE", out.sign.sig>>,
                                <<"KALSHI-ACCESS-TIMESTAMP", Decimal(ts)>>>>),
                   signed |-> <<m>>]

\* HeaderMap::insert: a later value of a name takes the place of the earlier
HeaderInsert(headers, name, value) ==
    IF \E i \in 1..Len(headers) : headers[i][1] = name
    THEN [i \in 1..Len(headers) |->
              IF headers[i][1] = name THEN <<name, value>> ELSE headers[i]]
    ELSE Append(headers, <<name, value>>)

\* the loop over the pairs api_key_headers returned: the first value that is
\* no header value ends the call with an error
RECURSIVE InsertAll(_, _)
InsertAll(headers, pairs) ==
    IF pairs = <<>> THEN Ok(headers)
    ELSE IF ~ValidHeaderValue(pairs[1][2])
         THEN Err("InternalError", "Invalid header value")
         ELSE InsertAll(HeaderInsert(headers, HeaderName(pairs[1][1]), pairs[1][2]),
                        Tail(pairs))

\* the credentials of a Kalshi instance (KalshiAuth), and its curr_token
EmailPassword == [kind |-> "EmailPassword"]
ApiKey(key_id) == [kind |-> "ApiKey", key_id |-> key_id]
Tokens == {None, Some("Bearer t0k3n")}

\* generate_auth_headers: what it returns, and the messages handed to the signer
generate_auth_headers(auth, curr_token, ts, method, path, out) ==
    IF auth.kind = "EmailPassword"
    THEN [res |-> IF ~curr_token.some
                  THEN Err("UserInputError",
                           "No user token, login first using .login(..)")
                  ELSE IF ~ValidHeaderValue(curr_token.v)
                       THEN Err("InternalError", "Invalid header value")
                       ELSE Ok(<<<<"authorization", curr_token.v>>>>),
          signed |-> <<>>]
    ELSE LET r == api_key_headers(auth.key_id, ts, method, path, out)
         IN  [res |-> IF ~r.res.ok
                      THEN Err("InternalError", "API key header generation failed")
                      ELSE InsertAll(<<>>, r.res.val),
              signed |-> r.signed]

NotSigning == [st |-> "none"]
\* no Kalshi instance in view, no connect call, no paginated fetch
NoKalshi == [st |-> "none"]
NotConnecting == [st |-> "none"]
NotFetching == [st |-> "none"]

\* --------------------------------------------------------- derived state
\* the supervisor task has ended, so to_kalshi_rx and from_kalshi_tx are dropped
Stopped == pc \in {"exited", "panicked"}

\* the receivers a broadcast reaches
Attached == {c \in ConsumerIds : consumers[c].st = "attached"}

\* the sids for which the client holds a subscription record: the handle has
\* the fields _ws, next_cmd_id, to_kalshi and from_kalshi, the supervisor the
\* socket, the heartbeat and the two channel ends, and the inbound arm hands
\* every acknowledgement to the broadcast channel and keeps nothing of it
SubscriptionRecords == {}

\* a counter that is never advanced
NextId_stuck(n) == n

\* self.next_cmd_id += 1 on a u32: past u32::MAX the value wraps to 0 (a build
\* with overflow checks panics there instead)
NextId(n) ==
    IF n.lo < Half - 1 THEN U32(n.hi, n.lo + 1)
    ELSE IF n.hi < Half - 1 THEN U32(n.hi + 1, 0)
    ELSE U32(0, 0)

\* the order of u32 values
IdLess(a, b) == a.hi < b.hi \/ (a.hi = b.hi /\ a.lo < b.lo)

\* mpsc::UnboundedSender::send fails once the receiver is dropped
SendFails == Stopped

\* the values of the broadcast channel: Ok(response), Err(error)
OkEvent(res) == [res |-> "Ok", err |-> "none", val |-> res]
ErrEvent(e) == [res |-> "Err", err |-> e]

\* a channel whose send waits until the slowest receiver has room
Broadcast_waitsForSlowest(ev) ==
    /\ \A c \in Attached : Len(sent) - consumers[c].pos + 1 < Capacity
    /\ sent' = Append(sent, ev)

\* broadcast::Sender::send: the value is stored once for all receivers, over
\* the oldest value kept when Capacity values are kept already; it never waits
Broadcast(ev) == sent' = Append(sent, ev)

\* no receiver yet, and Sender::subscribe / Receiver::resubscribe: a receiver
\* that starts at the tail of the channel
NoReceiver == [st |-> "none", from |-> 0, pos |-> 0, n |-> 0, got |-> 0,
               skipped |-> 0]
\* a new receiver that starts at the oldest value the channel holds
NewReceiver_replays == [st |-> "attached", from |-> 1, pos |-> 1,
                        n |-> 0, got |-> 0, skipped |-> 0]
NewReceiver == [st |-> "attached", from |-> Len(sent) + 1, pos |-> Len(sent) + 1,
                n |-> 0, got |-> 0, skipped |-> 0]

Init ==
    /\ next_cmd_id = FirstCmdId
    /\ handle = "live"
    /\ to_kalshi = <<>>
    /\ pc = "select"
    /\ cur = NoCmd
    /\ wire = <<>>
    /\ tickDue = TRUE
    /\ missed = 0
    /\ events = 0
    /\ inbound = <<>>
    /\ sent = <<>>
    /\ consumers = [c \in ConsumerIds |-> NoReceiver]
    /\ ncalls = 0
    /\ lastCall = [op |-> "none", channels |-> <<>>, market_tickers |-> <<>>,
                   res |-> "none", id |-> U32(0, 0)]
    /\ returned = <<>>
    /\ enq = <<>>
    /\ errs = <<>>
    /\ pings = <<>>
    /\ stopAttached = {}
    /\ signing = NotSigning
    /\ kalshi = NoKalshi
    /\ conn = NotConnecting
    /\ fetch = NotFetching

\* a busy feed: since both receivers attached the peer has sent Capacity - 1
\* texts of a type the client does not know, each broadcast as a decoding
\* error; receiver 1 has read none of them, receiver 2 all of them. The first
\* tick has been served and the caller makes no call. Trades follow.
LagItems == {TextFrame(TradeText)}

LagInit ==
    /\ next_cmd_id = FirstCmdId
    /\ handle = "live"
    /\ to_kalshi = <<>>
    /\ pc = "select"
    /\ cur = NoCmd
    /\ wire = <<PingFrame>>
    /\ tickDue = FALSE
    /\ missed = 0
    /\ events = 0
    /\ inbound = <<>>
    /\ sent = [i \in 1..(Capacity - 1) |-> ErrEvent("SerializationError")]
    /\ consumers = [c \in ConsumerIds |->
                       IF c = 1
                       THEN [st |-> "attached", from |-> 1, pos |-> 1, n |-> 0,
                             got |-> 0, skipped |-> 0]
                       ELSE [st |-> "attached", from |-> 1, pos |-> Capacity,
                             n |-> Capacity - 1, got |-> Capacity - 1, skipped |-> 0]]
    /\ ncalls = 0
    /\ lastCall = [op |-> "none", channels |-> <<>>, market_tickers |-> <<>>,
                   res |-> "none", id |-> U32(0, 0)]
    /\ returned = <<>>
    /\ enq = <<>>
    /\ errs = <<>>
    /\ pings = <<>>
    /\ stopAttached = {}
    /\ signing = NotSigning
    /\ kalshi = NoKalshi
    /\ conn = NotConnecting
    /\ fetch = NotFetching

\* a request about to be signed: api_key_headers is entered with a method and
\* a path, and the clock will read ts
SignInit ==
    /\ next_cmd_id = FirstCmdId
    /\ handle = "live"
    /\ to_kalshi = <<>>
    /\ pc = "select"
    /\ cur = NoCmd
    /\ wire = <<>>
    /\ tickDue = TRUE
    /\ missed = 0
    /\ events = 0
    /\ inbound = <<>>
    /\ sent = <<>>
    /\ consumers = [c \in ConsumerIds |-> NoReceiver]
    /\ ncalls = 0
    /\ lastCall = [op |-> "none", channels |-> <<>>, market_tickers |-> <<>>,
                   res |-> "none", id |-> U32(0, 0)]
    /\ returned = <<>>
    /\ enq = <<>>
    /\ errs = <<>>
    /\ pings = <<>>
    /\ stopAttached = {}
    /\ kalshi = NoKalshi
    /\ conn = NotConnecting
    /\ fetch = NotFetching
    /\ \E in \in SigningInputs, out \in Outcomes :
           \/ \E k \in KeyIds :
                  signing = [st |-> "called", in |-> in, key_id |-> k, out |-> out]
           \/ \E a \in {EmailPassword} \cup {ApiKey(k) : k \in KeyIds}, t \in Tokens :
                  signing = [st |-> "generating", in |-> in, auth |-> a,
                             curr_token |-> t, out |-> out]

\* the variables of the caller, of the supervisor task, of the environment
CallVars == <<next_cmd_id, to_kalshi, ncalls, lastCall, returned, enq, signing, kalshi, conn, fetch>>
SupervisorVars == <<pc, cur, wire, sent, errs, pings, stopAttached>>
EnvVars == <<tickDue, missed, inbound>>

\* api_key_headers, called with a key id, a method and a path
ApiKeyHeaders ==
    /\ signing.st = "called"
    /\ LET in == signing.in
           r == api_key_headers(signing.key_id, in.ts, in.method, in.path, signing.out)
       IN  signing' =
               IF r.signed /= <<>>
               THEN [st |-> "signed", in |-> in, key_id |-> signing.key_id,
                     out |-> signing.out, msg_string |-> r.signed[1],
                     res |-> r.res, signed |-> r.signed]
               ELSE [st |-> "unsigned", in |-> in, key_id |-> signing.key_id,
                     out |-> signing.out, res |-> r.res, signed |-> r.signed]
    /\ UNCHANGED <<next_cmd_id, to_kalshi, ncalls, lastCall, returned, enq, handle,
                   consumers, events>>
    /\ UNCHANGED <<kalshi, conn, fetch>>
    /\ UNCHANGED SupervisorVars
    /\ UNCHANGED EnvVars

\* generate_auth_headers, called on an instance with a method and a path
GenerateAuthHeaders ==
    /\ signing.st = "generating"
    /\ LET in == signing.in
           r == generate_auth_headers(signing.auth, signing.curr_token, in.ts,
                                      in.method, in.path, signing.out)
       IN  signing' = [st |-> "generated", in |-> in, auth |-> signing.auth,
                       curr_token |-> signing.curr_token, out |-> signing.out,
                       res |-> r.res, signed |-> r.signed]
    /\ UNCHANGED <<next_cmd_id, to_kalshi, ncalls, lastCall, returned, enq, handle,
                   consumers, events, kalshi, conn, fetch>>
    /\ UNCHANGED SupervisorVars
    /\ UNCHANGED EnvVars

SignNext == ApiKeyHeaders \/ GenerateAuthHeaders

SignSpec == SignInit /\ [][SignNext]_vars

\* ------------------------------------------------- construction and connect
TradingEnvironments == {"LiveMarketMode", "LegacyLiveMarketMode", "DemoMode"}

build_base_url(trading_env) ==
    CASE trading_env = "LiveMarketMode" -> "https://api.elections.kalshi.com/trade-api/v2"
      [] trading_env = "LegacyLiveMarketMode" -> "https://trading-api.kalshi.com/trade-api/v2"
      [] trading_env = "DemoMode" -> "https://demo-api.kalshi.co/trade-api/v2"

build_ws_url(trading_env) ==
    CASE trading_env = "LiveMarketMode" -> "wss://api.elections.kalshi.com/trade-api/ws/v2"
      [] trading_env = "LegacyLiveMarketMode" -> "wss://trading-api.kalshi.com/v1/ws"
      [] trading_env = "DemoMode" -> "wss://demo-api.kalshi.co/trade-api/ws/v2"

\* the index of the first occurrence of sub in s at or after i, 0 when none
RECURSIVE Find(_, _, _)
Find(s, sub, i) ==
    IF i + Len(sub) - 1 > Len(s) THEN 0
    ELSE IF SubSeq(s, i, i + Len(sub) - 1) = sub THEN i
    ELSE Find(s, sub, i + 1)

\* the first of two indices that is not 0, or n + 1 when both are
FirstOf(a, b, n) ==
    IF a = 0 /\ b = 0 THEN n + 1
    ELSE IF a = 0 THEN b
    ELSE IF b = 0 THEN a
    ELSE IF a < b THEN a ELSE b

\* Url::parse of an absolute URL with an authority: scheme://host/path?query#fragment;
\* the path of such a URL is never empty
UrlParse(url) ==
    LET c == Find(url, "://", 1)
    IN  IF c <= 1 THEN [ok |-> FALSE]
        ELSE LET a == c + 3
                 e == FirstOf(Find(url, "?", a), Find(url, "#", a), Len(url))
                 p == Find(SubSeq(url, 1, e - 1), "/", a)
                 h == IF p = 0 THEN e ELSE p
             IN  IF h = a THEN [ok |-> FALSE]
                 ELSE [ok |-> TRUE,
                       scheme |-> SubSeq(url, 1, c - 1),
                       host |-> SubSeq(url, a, h - 1),
                       path |-> IF p = 0 THEN "/" ELSE SubSeq(url, p, e - 1)]

extract_url_path(url_string) ==
    LET url == UrlParse(url_string)
    IN  IF url.ok THEN url.path ELSE "/trade-api/ws/v2"

\* Uri::from_str(..)?.into_client_request()?: a GET request for the URI with
\* the headers of a WebSocket upgrade (the random sec-websocket-key is left out)
into_client_request(url_string) ==
    LET url == UrlParse(url_string)
    IN  IF ~url.ok THEN Err("Url", "")
        ELSE Ok([method |-> "GET", uri |-> url_string,
                 headers |-> <<<<"host", url.host>>, <<"connection", "Upgrade">>,
                               <<"upgrade", "websocket">>,
                               <<"sec-websocket-version", "13">>>>])

\* private-key material as a caller may pass it: whether it is the PEM of a
\* private key, and of which algorithm
KeyMaterials ==
    {[pem |-> FALSE]} \cup [pem : {TRUE}, alg : {"RSA", "EC", "ED25519"}]

Panic(msg) == [panic |-> TRUE, msg |-> msg]
Built(v) == [panic |-> FALSE, val |-> v]

\* a build_api_key that keeps the PEM string and loads the key when it signs
build_api_key_lazy(key_id, key) ==
    Built([kind |-> "ApiKey", key_id |-> key_id, key |-> key])

\* KalshiAuth::build_api_key: each step is an expect
build_api_key(key_id, key) ==
    IF ~key.pem
    THEN Panic("Unable to load private key from pem string provided")
    ELSE IF key.alg = "ED25519"
    THEN Panic("Unable to load signer from private key")
    ELSE IF key.alg /= "RSA"
    THEN Panic("Unable to set rsa padding on signer")
    ELSE Built([kind |-> "ApiKey", key_id |-> key_id, key |-> key])

\* the token a login returns
LoginTokens == {"t0k3n"}
\* the statuses with which the server turns an upgrade down
RejectStatuses == {401, 503}

\* before any instance is constructed: nothing of a connection exists
ClientInit ==
    /\ next_cmd_id = U32(0, 0)
    /\ handle = "none"
    /\ to_kalshi = <<>>
    /\ pc = "unspawned"
    /\ cur = NoCmd
    /\ wire = <<>>
    /\ tickDue = FALSE
    /\ missed = 0
    /\ events = 0
    /\ inbound = <<>>
    /\ sent = <<>>
    /\ consumers = [c \in ConsumerIds |-> NoReceiver]
    /\ ncalls = 0
    /\ lastCall = [op |-> "none", channels |-> <<>>, market_tickers |-> <<>>,
                   res |-> "none", id |-> U32(0, 0)]
    /\ returned = <<>>
    /\ enq = <<>>
    /\ errs = <<>>
    /\ pings = <<>>
    /\ stopAttached = {}
    /\ signing = NotSigning
    /\ kalshi = [st |-> "start"]
    /\ conn = NotConnecting
    /\ fetch = NotFetching

\* what construction and connect leave alone until the handshake is accepted
ConnVars ==
    <<to_kalshi, cur, wire, tickDue, missed, events, inbound, sent, consumers, ncalls,
      lastCall, returned, enq, errs, pings, stopAttached, signing, fetch>>
HandleVars == <<next_cmd_id, handle, pc>>

\* Kalshi::new
New(trading_env) ==
    /\ kalshi.st = "start"
    /\ kalshi' = [st |-> "built",
                  base_url |-> build_base_url(trading_env),
                  ws_url |-> build_ws_url(trading_env),
                  curr_token |-> None,
                  auth |-> EmailPassword]
    /\ UNCHANGED <<conn>>
    /\ UNCHANGED ConnVars
    /\ UNCHANGED HandleVars

\* Kalshi::new_with_api_key: a panic of build_api_key leaves no instance
NewWithApiKey(trading_env, key_id, key) ==
    /\ kalshi.st = "start"
    /\ LET a == build_api_key(key_id, key)
       IN  kalshi' = IF a.panic
                     THEN [st |-> "panicked", msg |-> a.msg, key |-> key]
                     ELSE [st |-> "built",
                           base_url |-> build_base_url(trading_env),
                           ws_url |-> build_ws_url(trading_env),
                           curr_token |-> None,
                           auth |-> a.val]
    /\ UNCHANGED <<conn>>
    /\ UNCHANGED ConnVars
    /\ UNCHANGED HandleVars

\* login: the POST succeeds and the token is kept, or it fails with `?`; connect
\* borrows the instance mutably, so no login runs inside a connect
Login ==
    /\ kalshi.st = "built"
    /\ conn.st \in {"none", "returned"}
    /\ \/ \E t \in LoginTokens :
             kalshi' = [kalshi EXCEPT !.curr_token = Some("Bearer " \o t)]
       \/ UNCHANGED kalshi
    /\ UNCHANGED <<conn>>
    /\ UNCHANGED ConnVars
    /\ UNCHANGED HandleVars

\* connect, lines 78-79: the upgrade request is built and the path derived
ConnectStart ==
    /\ kalshi.st = "built"
    /\ conn.st = "none"
    /\ LET req == into_client_request(kalshi.ws_url)
       IN  conn' = IF ~req.ok
                   THEN [st |-> "returned", res |-> req, requests |-> <<>>,
                         signed |-> <<>>, created |-> {}]
                   ELSE [st |-> "headers", req |-> req.val,
                         ws_api_path |-> extract_url_path(kalshi.ws_url),
                         requests |-> <<>>, signed |-> <<>>, created |-> {}]
    /\ UNCHANGED <<kalshi>>
    /\ UNCHANGED ConnVars
    /\ UNCHANGED HandleVars

\* a connect that goes on with no auth header when their generation fails
ConnectHeaders_goesOn ==
    /\ conn.st = "headers"
    /\ \E ts \in Timestamps, out \in Outcomes :
          LET g == generate_auth_headers(kalshi.auth, kalshi.curr_token, ts, "GET",
                                         conn.ws_api_path, out)
          IN  conn' = [st |-> "attach", req |-> conn.req,
                       ws_api_path |-> conn.ws_api_path, ts |-> ts,
                       auth_headers |-> IF g.res.ok THEN g.res.val ELSE <<>>,
                       generated |-> g.res,
                       requests |-> <<>>, signed |-> g.signed, created |-> {}]
    /\ UNCHANGED <<kalshi>>
    /\ UNCHANGED ConnVars
    /\ UNCHANGED HandleVars

\* connect, lines 80-82: the auth headers for GET and the path, or the error
\* with which connect returns
ConnectHeaders ==
    /\ conn.st = "headers"
    /\ \E ts \in Timestamps, out \in Outcomes :
          LET g == generate_auth_headers(kalshi.auth, kalshi.curr_token, ts, "GET",
                                         conn.ws_api_path, out)
          IN  conn' = IF ~g.res.ok
                      THEN [st |-> "returned",
                            res |-> Err("Box", "Auth header generation failed"),
                            generated |-> g.res,
                            requests |-> <<>>, signed |-> g.signed, created |-> {}]
                      ELSE [st |-> "attach", req |-> conn.req,
                            ws_api_path |-> conn.ws_api_path, ts |-> ts,
                            auth_headers |-> g.res.val, generated |-> g.res,
                            requests |-> <<>>, signed |-> g.signed, created |-> {}]
    /\ UNCHANGED <<kalshi>>
    /\ UNCHANGED ConnVars
    /\ UNCHANGED HandleVars

\* req.headers_mut().insert for every generated header
RECURSIVE Attach(_, _)
Attach(headers, auth_headers) ==
    IF auth_headers = <<>> THEN headers
    ELSE Attach(HeaderInsert(headers, HeaderName(auth_headers[1][1]), auth_headers[1][2]),
                Tail(auth_headers))

\* connect, lines 83-91
ConnectAttach ==
    /\ conn.st = "attach"
    /\ conn' = [conn EXCEPT !.st = "upgrade",
                            !.req.headers = Attach(conn.req.headers, conn.auth_headers)]
    /\ UNCHANGED <<kalshi>>
    /\ UNCHANGED ConnVars
    /\ UNCHANGED HandleVars

\* connect, line 93: connect_async sends the upgrade request and waits
ConnectUpgrade ==
    /\ conn.st = "upgrade"
    /\ conn' = [conn EXCEPT !.st = "handshake", !.requests = Append(@, conn.req)]
    /\ UNCHANGED <<kalshi>>
    /\ UNCHANGED ConnVars
    /\ UNCHANGED HandleVars

\* the two channels, the supervisor task and the handle of lines 105-116
Connection == {"to_kalshi", "from_kalshi", "_ws", "KalshiWebsocketClient"}

\* connect, lines 93-116, the server switches protocols
HandshakeAccepted ==
    /\ conn.st = "handshake"
    /\ conn' = [st |-> "returned", res |-> Ok("KalshiWebsocketClient"),
                requests |-> conn.requests, signed |-> conn.signed,
                created |-> Connection]
    /\ next_cmd_id' = FirstCmdId
    /\ handle' = "live"
    /\ pc' = "select"
    /\ UNCHANGED <<kalshi>>
    /\ UNCHANGED ConnVars

\* a connect that sets the connection up before it looks at the handshake
HandshakeRejected_spawns(status) ==
    /\ conn.st = "handshake"
    /\ conn' = [st |-> "returned", res |-> Err("Http", Decimal(status)),
                requests |-> conn.requests, signed |-> conn.signed,
                created |-> {"to_kalshi", "from_kalshi", "_ws"}]
    /\ pc' = "select"
    /\ UNCHANGED <<kalshi, next_cmd_id, handle>>
    /\ UNCHANGED ConnVars

\* connect, lines 93-103, the server answers with another status: inspect_err
\* prints, `?` returns
HandshakeRejected(status) ==
    /\ conn.st = "handshake"
    /\ conn' = [st |-> "returned", res |-> Err("Http", Decimal(status)),
                requests |-> conn.requests, signed |-> conn.signed,
                created |-> {}]
    /\ UNCHANGED <<kalshi>>
    /\ UNCHANGED ConnVars
    /\ UNCHANGED HandleVars

\* a connect that returned leaves the instance free for the next attempt
ConnectAgain ==
    /\ conn.st = "returned"
    /\ ~conn.res.ok
    /\ conn' = NotConnecting
    /\ UNCHANGED <<kalshi>>
    /\ UNCHANGED ConnVars
    /\ UNCHANGED HandleVars

ClientNext ==
    \/ \E e \in TradingEnvironments : New(e)
    \/ \E e \in TradingEnvironments, k \in KeyIds, m \in KeyMaterials :
          NewWithApiKey(e, k, m)
    \/ Login
    \/ ConnectStart
    \/ ConnectHeaders
    \/ ConnectAttach
    \/ ConnectUpgrade
    \/ HandshakeAccepted
    \/ \E status \in RejectStatuses : HandshakeRejected(status)
    \/ ConnectAgain

ClientSpec == ClientInit /\ [][ClientNext]_vars

\* ------------------------------------------------------- paginated fetches
\* a deserializer that keeps the empty string as a cursor
empty_string_as_some(j) ==
    IF j.t /= "str" THEN Err("Json", "invalid type") ELSE Ok(Some(j.v))

\* #[serde(deserialize_with = "empty_string_as_none")]
empty_string_as_none(j) ==
    IF j.t /= "str" THEN Err("Json", "invalid type")
    ELSE IF j.v = "" THEN Ok(None)
    ELSE Ok(Some(j.v))

\* response.json::<PublicMarketsResponse>(): both fields are required; the
\* markets are kept as they came
PublicMarketsResponse(j) ==
    IF j.t /= "obj" THEN Err("Json", "invalid type")
    ELSE IF "cursor" \notin DOMAIN j.v THEN Err("Json", "missing field cursor")
    ELSE IF "markets" \notin DOMAIN j.v THEN Err("Json", "missing field markets")
    ELSE LET c == empty_string_as_none(j.v.cursor)
         IN  IF ~c.ok THEN c
             ELSE IF j.v.markets.t /= "arr" THEN Err("Json", "invalid type")
             ELSE Ok([cursor |-> c.val, markets |-> j.v.markets.v])

\* update_cursor_param: the params afterwards, and what it returns
update_cursor_param(params, cursor) ==
    IF ~cursor.some THEN [params |-> params, ret |-> FALSE]
    ELSE IF \E i \in 1..Len(params) : params[i][1] = "cursor"
    THEN LET i == CHOOSE i \in 1..Len(params) :
                      /\ params[i][1] = "cursor"
                      /\ \A j \in 1..(i - 1) : params[j][1] /= "cursor"
         IN  [params |-> [params EXCEPT ![i] = <<"cursor", cursor.v>>], ret |-> TRUE]
    ELSE [params |-> Append(params, <<"cursor", cursor.v>>), ret |-> TRUE]

\* add_param!
add_param(params, param_name, param_value) ==
    IF param_value.some THEN Append(params, <<param_name, param_value.v>>) ELSE params

\* str::trim_end_matches('/')
RECURSIVE TrimEndSlashes(_)
TrimEndSlashes(s) ==
    IF s /= "" /\ SubSeq(s, Len(s), Len(s)) = "/"
    THEN TrimEndSlashes(SubSeq(s, 1, Len(s) - 1))
    ELSE s

get_api_path(base_url, relative_path) ==
    LET url == UrlParse(base_url)
    IN  IF url.ok THEN TrimEndSlashes(url.path) \o "/" \o relative_path
        ELSE "/trade-api/v2/" \o relative_path

\* the arguments of a fetch: limit and event_ticker
Limits == {None, Some(2)}
EventTickers == {None, Some("KXHIGHCHI-25OCT02")}
\* what the server answers: a page with a cursor and markets, a body that is
\* no PublicMarketsResponse, or nothing (the request fails)
Cursors == {JStr(""), JStr("c1"), JStr("c2")}
MarketLists == {JArr(<<>>), JArr(<<JStr("M1"), JStr("M2")>>)}
Pages ==
    {JObj([cursor |-> c, markets |-> m]) : c \in Cursors, m \in MarketLists}
    \cup {JObj([cursor |-> JNull, markets |-> JArr(<<>>)]),
          JObj([markets |-> JArr(<<>>)])}
\* the instances that fetch: logged in or not, or with a key pair
FetchInstances ==
    {[st |-> "built", base_url |-> build_base_url("DemoMode"),
      ws_url |-> build_ws_url("DemoMode"), curr_token |-> t, auth |-> EmailPassword]
        : t \in Tokens}
    \cup {[st |-> "built", base_url |-> build_base_url("DemoMode"),
           ws_url |-> build_ws_url("DemoMode"), curr_token |-> None,
           auth |-> [kind |-> "ApiKey", key_id |-> "f2f80a1c-3b6d",
                     key |-> [pem |-> TRUE, alg |-> "RSA"]]]}
FetchTimestamps == {1759350609}

\* get_multiple_markets was called and returned its stream, not yet polled
FetchInit ==
    /\ next_cmd_id = U32(0, 0)
    /\ handle = "none"
    /\ to_kalshi = <<>>
    /\ pc = "unspawned"
    /\ cur = NoCmd
    /\ wire = <<>>
    /\ tickDue = FALSE
    /\ missed = 0
    /\ events = 0
    /\ inbound = <<>>
    /\ sent = <<>>
    /\ consumers = [c \in ConsumerIds |-> NoReceiver]
    /\ ncalls = 0
    /\ lastCall = [op |-> "none", channels |-> <<>>, market_tickers |-> <<>>,
                   res |-> "none", id |-> U32(0, 0)]
    /\ returned = <<>>
    /\ enq = <<>>
    /\ errs = <<>>
    /\ pings = <<>>
    /\ stopAttached = {}
    /\ signing = NotSigning
    /\ kalshi \in FetchInstances
    /\ conn = NotConnecting
    /\ \E limit \in Limits, event_ticker \in EventTickers :
          fetch = [st |-> "called", limit |-> limit, event_ticker |-> event_ticker]

FetchFrame ==
    UNCHANGED <<next_cmd_id, handle, to_kalshi, pc, cur, wire, tickDue, missed, events,
                inbound, sent, consumers, ncalls, lastCall, returned, enq, errs, pings,
                stopAttached, signing, kalshi, conn>>

\* the first poll of the stream: lines 175-186, up to the loop
FetchStart ==
    /\ fetch.st = "called"
    /\ fetch' = [st |-> "loop",
                 retrieve_all |-> ~fetch.limit.some,
                 markets_url |-> kalshi.base_url \o "/markets",
                 params |-> add_param(
                     add_param(<<>>, "limit",
                               IF fetch.limit.some THEN Some(Decimal(fetch.limit.v))
                               ELSE None),
                     "event_ticker", fetch.event_ticker),
                 requests |-> <<>>, responses |-> <<>>, yielded |-> <<>>]
    /\ FetchFrame

\* the loop, lines 189-214: the URL with the params, the auth headers, and
\* the request sent; a failed header generation is yielded and ends the stream
FetchRequest ==
    /\ fetch.st = "loop"
    /\ Len(fetch.requests) < MaxPages
    /\ \E ts \in FetchTimestamps, out \in Outcomes :
          LET g == generate_auth_headers(kalshi.auth, kalshi.curr_token, ts, "GET",
                                         get_api_path(kalshi.base_url, "markets"), out)
          IN  fetch' =
                  IF ~g.res.ok
                  THEN [fetch EXCEPT !.st = "done",
                                     !.yielded = Append(@, g.res)]
                  ELSE [fetch EXCEPT !.st = "waiting",
                                     !.requests =
                                         Append(@, [url |-> fetch.markets_url,
                                                    params |-> fetch.params,
                                                    headers |-> g.res.val])]
    /\ FetchFrame

\* a loop that yields the error of a failed request and tries again
FetchSendFails_retries ==
    /\ fetch.st = "waiting"
    /\ fetch' = [fetch EXCEPT !.st = "loop",
                              !.yielded = Append(@, Err("Reqwest", "send"))]
    /\ FetchFrame

\* request.send().await failed: the error is yielded and the stream ends
FetchSendFails ==
    /\ fetch.st = "waiting"
    /\ fetch' = [fetch EXCEPT !.st = "done",
                              !.yielded = Append(@, Err("Reqwest", "send"))]
    /\ FetchFrame

\* lines 214-240: the answer of the server is decoded, its markets are
\* yielded, and the cursor is put into the params for the next request
FetchResponse(body) ==
    /\ fetch.st = "waiting"
    /\ LET result == PublicMarketsResponse(body)
       IN  fetch' =
               IF ~result.ok
               THEN [fetch EXCEPT !.st = "done", !.yielded = Append(@, result)]
               ELSE LET u == update_cursor_param(fetch.params, result.val.cursor)
                        y == fetch.yielded
                               \o [i \in 1..Len(result.val.markets) |->
                                      Ok(result.val.markets[i])]
                    IN  IF ~fetch.retrieve_all
                        THEN [fetch EXCEPT !.st = "done", !.yielded = y,
                                           !.responses = Append(@, body)]
                        ELSE [fetch EXCEPT !.st = IF u.ret THEN "loop" ELSE "done",
                                           !.params = u.params,
                                           !.yielded = y,
                                           !.responses = Append(@, body)]
    /\ FetchFrame

\* the caller drops the stream instead of polling it again
FetchDrop ==
    /\ fetch.st \in {"called", "loop", "waiting"}
    /\ fetch' = [fetch EXCEPT !.st = "dropped"]
    /\ FetchFrame

FetchNext ==
    \/ FetchStart
    \/ FetchRequest
    \/ FetchSendFails
    \/ \E body \in Pages : FetchResponse(body)
    \/ FetchDrop

FetchSpec == FetchInit /\ [][FetchNext]_vars

\* ------------------------------------------------------------- dispatcher

Call(op, channels, market_tickers, res, id) ==
    [op |-> op, channels |-> channels, market_tickers |-> market_tickers,
     res |-> res, id |-> id]

\* the local validation of subscribe
SubscribeRejects_soleChannel(channels, market_tickers) ==
    channels = <<"OrderbookDelta">> /\ Len(market_tickers) = 0

SubscribeRejects(channels, market_tickers) ==
    Contains(channels, "OrderbookDelta") /\ Len(market_tickers) = 0

\* a call that advances the counter before it knows whether the send worked
SendAndReturn_countsFirst(op, channels, market_tickers, msg) ==
    /\ next_cmd_id' = NextId(next_cmd_id)
    /\ IF SendFails
       THEN /\ lastCall' = Call(op, channels, market_tickers, "SendError", msg.id)
            /\ UNCHANGED <<to_kalshi, returned, enq>>
       ELSE /\ to_kalshi' = Append(to_kalshi, msg)
            /\ enq' = Append(enq, msg)
            /\ returned' = Append(returned, msg.id)
            /\ lastCall' = Call(op, channels, market_tickers, "Ok", msg.id)

\* self.to_kalshi.send(msg)?; self.next_cmd_id += 1; Ok(cmd_id)
SendAndReturn(op, channels, market_tickers, msg) ==
    IF SendFails
    THEN /\ lastCall' = Call(op, channels, market_tickers, "SendError", msg.id)
         /\ UNCHANGED <<next_cmd_id, to_kalshi, returned, enq>>
    ELSE /\ to_kalshi' = Append(to_kalshi, msg)
         /\ enq' = Append(enq, msg)
         /\ next_cmd_id' = NextId(next_cmd_id)
         /\ returned' = Append(returned, msg.id)
         /\ lastCall' = Call(op, channels, market_tickers, "Ok", msg.id)

\* a call on a queue bounded to one command: it waits until there is room
CallStep_waitsForRoom ==
    /\ handle = "live"
    /\ to_kalshi = <<>>
    /\ events < MaxEvents
    /\ events' = events + 1
    /\ ncalls' = ncalls + 1
    /\ UNCHANGED <<handle, consumers, signing, kalshi, conn, fetch>>
    /\ UNCHANGED SupervisorVars
    /\ UNCHANGED EnvVars

\* a dispatcher call is one external event. The call has no await that can
\* suspend it: UnboundedSender::send returns at once
CallStep ==
    /\ handle = "live"
    /\ events < MaxEvents
    /\ events' = events + 1
    /\ ncalls' = ncalls + 1
    /\ UNCHANGED <<handle, consumers, signing, kalshi, conn, fetch>>
    /\ UNCHANGED SupervisorVars
    /\ UNCHANGED EnvVars

\* a subscribe that allocates the id before it validates
Subscribe_allocFirst(channels, market_tickers) ==
    /\ CallStep
    /\ IF SubscribeRejects(channels, market_tickers)
       THEN /\ lastCall' = Call("subscribe", channels, market_tickers,
                                "ValidationError", next_cmd_id)
            /\ next_cmd_id' = NextId(next_cmd_id)
            /\ UNCHANGED <<to_kalshi, returned, enq>>
       ELSE SendAndReturn("subscribe", channels, market_tickers,
                          SubscribeCmd(next_cmd_id, channels, market_tickers))

Subscribe(channels, market_tickers) ==
    /\ CallStep
    /\ IF SubscribeRejects(channels, market_tickers)
       THEN /\ lastCall' = Call("subscribe", channels, market_tickers,
                                "ValidationError", next_cmd_id)
            /\ UNCHANGED <<next_cmd_id, to_kalshi, returned, enq>>
       ELSE SendAndReturn("subscribe", channels, market_tickers,
                          SubscribeCmd(next_cmd_id, channels, market_tickers))

Unsubscribe(sids) ==
    /\ CallStep
    /\ SendAndReturn("unsubscribe", <<>>, <<>>, UnsubscribeCmd(next_cmd_id, sids))

UpdateSubscription(sid, market_tickers, action) ==
    /\ CallStep
    /\ SendAndReturn("update_subscription", <<>>, market_tickers,
                     UpdateSubscriptionCmd(next_cmd_id, sid, market_tickers, action))

\* receiver(): a new broadcast receiver that starts at the tail of the channel
ReceiverCall(c) ==
    /\ handle = "live"
    /\ consumers[c].st = "none"
    /\ \A d \in ConsumerIds : d < c => consumers[d].st /= "none"
    /\ events < MaxEvents
    /\ events' = events + 1
    /\ consumers' = [consumers EXCEPT ![c] = NewReceiver]
    /\ UNCHANGED handle
    /\ UNCHANGED CallVars
    /\ UNCHANGED SupervisorVars
    /\ UNCHANGED EnvVars

\* close(self), first half: self.to_kalshi.send(KalshiCommand::End)?
Close ==
    /\ handle = "live"
    /\ handle' = "closing"
    /\ IF SendFails
       THEN UNCHANGED <<to_kalshi, enq>>
       ELSE /\ to_kalshi' = Append(to_kalshi, End)
            /\ enq' = Append(enq, End)
    /\ UNCHANGED <<next_cmd_id, ncalls, lastCall, returned, consumers, events, signing,
                   kalshi, conn, fetch>>
    /\ UNCHANGED SupervisorVars
    /\ UNCHANGED EnvVars

\* the handle goes out of scope (at the end of close, or dropped by its owner):
\* the only command sender and the handle's own receiver are dropped
DropHandle ==
    /\ handle \in {"live", "closing"}
    /\ handle' = "dropped"
    /\ UNCHANGED <<consumers, events>>
    /\ UNCHANGED CallVars
    /\ UNCHANGED SupervisorVars
    /\ UNCHANGED EnvVars

\* -------------------------------------------------------------- consumers
\* the receiver's next value was overwritten: more than Capacity values are
\* unread by it
Lagging(r) == Len(sent) - r.pos + 1 > Capacity

\* a receiver that returns the newest value and forgets the older ones
RecvValue_newest(r) ==
    [r EXCEPT !.n = r.n + 1, !.got = Len(sent), !.pos = Len(sent) + 1,
              !.skipped = r.skipped + (Len(sent) - r.pos)]

\* Receiver::recv with a value to return: the oldest value not yet seen; a
\* lagging receiver returns Err(Lagged(n)) instead, n being the number of
\* values it lost, and moves to the oldest value kept
RecvValue(r) ==
    IF Lagging(r)
    THEN [r EXCEPT !.pos = Len(sent) - Capacity + 1,
                   !.skipped = r.skipped + (Len(sent) - Capacity + 1 - r.pos)]
    ELSE [r EXCEPT !.n = r.n + 1, !.got = r.pos, !.pos = r.pos + 1]

Recv(c) ==
    /\ consumers[c].st = "attached"
    /\ consumers[c].pos <= Len(sent)
    /\ consumers' = [consumers EXCEPT ![c] = RecvValue(consumers[c])]
    /\ UNCHANGED <<handle, events>>
    /\ UNCHANGED CallVars
    /\ UNCHANGED SupervisorVars
    /\ UNCHANGED EnvVars

ConsumerDrop(c) ==
    /\ consumers[c].st = "attached"
    /\ consumers' = [consumers EXCEPT ![c].st = "dropped"]
    /\ UNCHANGED <<handle, events>>
    /\ UNCHANGED CallVars
    /\ UNCHANGED SupervisorVars
    /\ UNCHANGED EnvVars

\* ------------------------------------------------------------ environment
\* one more 10 s period of the interval elapses: a tick becomes ready, or, if
\* one is still waiting for the supervisor, one more tick is missed
Tick ==
    /\ ~Stopped
    /\ events < MaxEvents
    /\ events' = events + 1
    /\ IF tickDue
       THEN missed' = missed + 1 /\ UNCHANGED tickDue
       ELSE tickDue' = TRUE /\ UNCHANGED missed
    /\ UNCHANGED <<inbound, handle, consumers>>
    /\ UNCHANGED CallVars
    /\ UNCHANGED SupervisorVars

\* the socket has one more item for the supervisor
PeerSend(item) ==
    /\ ~Stopped
    /\ events < MaxEvents
    /\ events' = events + 1
    /\ inbound' = Append(inbound, item)
    /\ UNCHANGED <<tickDue, missed, handle, consumers>>
    /\ UNCHANGED CallVars
    /\ UNCHANGED SupervisorVars

\* ------------------------------------------------------------- supervisor

\* to_kalshi_rx.recv() is ready: a command is queued, or every sender is gone
RecvReady == to_kalshi /= <<>> \/ handle = "dropped"

\* what a supervisor step leaves alone on the callers' side
SupervisorFrame ==
    UNCHANGED <<next_cmd_id, ncalls, lastCall, returned, enq, handle, consumers, events,
                signing, kalshi, conn, fetch>>

\* a supervisor that takes the newest queued command first
SelectCommand_newestFirst ==
    /\ pc = "select"
    /\ to_kalshi /= <<>>
    /\ cur' = to_kalshi[Len(to_kalshi)]
    /\ to_kalshi' = SubSeq(to_kalshi, 1, Len(to_kalshi) - 1)
    /\ pc' = "cmd_write"
    /\ UNCHANGED <<wire, sent, errs, pings, stopAttached>>
    /\ SupervisorFrame
    /\ UNCHANGED EnvVars

\* select_biased!, first arm, Some(cmd): the command is serialized and the
\* supervisor awaits the write of its frame
SelectCommand ==
    /\ pc = "select"
    /\ to_kalshi /= <<>>
    /\ cur' = Head(to_kalshi)
    /\ to_kalshi' = Tail(to_kalshi)
    /\ pc' = "cmd_write"
    /\ UNCHANGED <<wire, sent, errs, pings, stopAttached>>
    /\ SupervisorFrame
    /\ UNCHANGED EnvVars

\* stream.send(Message::text(msg)).await returned Ok
CommandWritten ==
    /\ pc = "cmd_write"
    /\ wire' = Append(wire, TextFrame(to_string(cur)))
    /\ cur' = NoCmd
    /\ pc' = "select"
    /\ UNCHANGED <<to_kalshi, sent, errs, pings, stopAttached>>
    /\ SupervisorFrame
    /\ UNCHANGED EnvVars

\* stream.send(Message::text(msg)).await returned Err: unwrap() panics, the
\* task ends and nothing is broadcast
CommandWriteFails ==
    /\ pc = "cmd_write"
    /\ errs' = Append(errs, "cmd_write")
    /\ cur' = NoCmd
    /\ pc' = "panicked"
    /\ stopAttached' = Attached
    /\ UNCHANGED <<to_kalshi, wire, sent, pings>>
    /\ SupervisorFrame
    /\ UNCHANGED EnvVars

\* a receiver that reports the end as soon as every sender is dropped,
\* whatever is still queued
SelectSendersDropped_eager ==
    /\ pc = "select"
    /\ handle = "dropped"
    /\ Broadcast(ErrEvent("ConnectionClosed"))
    /\ pc' = "exited"
    /\ stopAttached' = Attached
    /\ UNCHANGED <<to_kalshi, cur, wire, errs, pings>>
    /\ SupervisorFrame
    /\ UNCHANGED EnvVars

\* an arm that reports the end and stays in the loop
SelectSendersDropped_noBreak ==
    /\ pc = "select"
    /\ to_kalshi = <<>>
    /\ handle = "dropped"
    /\ Broadcast(ErrEvent("ConnectionClosed"))
    /\ UNCHANGED <<pc, stopAttached, to_kalshi, cur, wire, errs, pings>>
    /\ SupervisorFrame
    /\ UNCHANGED EnvVars

\* select_biased!, first arm, None: every sender is dropped and the queue is empty
SelectSendersDropped ==
    /\ pc = "select"
    /\ to_kalshi = <<>>
    /\ handle = "dropped"
    /\ Broadcast(ErrEvent("ConnectionClosed"))
    /\ pc' = "exited"
    /\ stopAttached' = Attached
    /\ UNCHANGED <<to_kalshi, cur, wire, errs, pings>>
    /\ SupervisorFrame
    /\ UNCHANGED EnvVars

\* a select without bias: the heartbeat arm may win over a ready command
SelectHeartbeat_unbiased ==
    /\ pc = "select"
    /\ tickDue
    /\ tickDue' = FALSE
    /\ missed' = 0
    /\ pc' = "ping_write"
    /\ UNCHANGED <<to_kalshi, cur, wire, sent, errs, pings, stopAttached, inbound>>
    /\ SupervisorFrame

\* MissedTickBehavior::Burst: every missed tick is still delivered
SelectHeartbeat_burst ==
    /\ pc = "select"
    /\ ~RecvReady
    /\ tickDue
    /\ IF missed > 0
       THEN missed' = missed - 1 /\ UNCHANGED tickDue
       ELSE tickDue' = FALSE /\ UNCHANGED missed
    /\ pc' = "ping_write"
    /\ UNCHANGED <<to_kalshi, cur, wire, sent, errs, pings, stopAttached, inbound>>
    /\ SupervisorFrame

\* select_biased!, second arm: the tick is consumed and the supervisor awaits
\* the write of a ping. MissedTickBehavior::Skip: the ticks missed meanwhile
\* are dropped and the next tick is a full period away
SelectHeartbeat ==
    /\ pc = "select"
    /\ ~RecvReady
    /\ tickDue
    /\ tickDue' = FALSE
    /\ missed' = 0
    /\ pc' = "ping_write"
    /\ UNCHANGED <<to_kalshi, cur, wire, sent, errs, pings, stopAttached, inbound>>
    /\ SupervisorFrame

\* stream.send(Message::Ping(vec![])).await returned Ok
PingWritten ==
    /\ pc = "ping_write"
    /\ wire' = Append(wire, PingFrame)
    /\ pc' = "select"
    /\ UNCHANGED <<to_kalshi, cur, sent, errs, pings, stopAttached>>
    /\ SupervisorFrame
    /\ UNCHANGED EnvVars

\* stream.send(Message::Ping(vec![])).await returned Err: the error is
\* broadcast and the loop goes on
PingWriteFails ==
    /\ pc = "ping_write"
    /\ errs' = Append(errs, "ping_write")
    /\ Broadcast(ErrEvent("WebSocketError"))
    /\ pc' = "select"
    /\ UNCHANGED <<to_kalshi, cur, wire, pings, stopAttached>>
    /\ SupervisorFrame
    /\ UNCHANGED EnvVars

\* a decoder that gives up the task on a text it cannot decode
TextReceived_unwrap(json) ==
    /\ IF from_str(json).ok
       THEN Broadcast(OkEvent(from_str(json).val)) /\ UNCHANGED <<pc, stopAttached>>
       ELSE pc' = "panicked" /\ stopAttached' = Attached /\ UNCHANGED sent
    /\ UNCHANGED <<wire, errs, pings>>

\* Ok(Message::Text(text)): the decoded response, or the decoding error, is
\* broadcast and the loop goes on
TextReceived(json) ==
    /\ Broadcast(IF from_str(json).ok THEN OkEvent(from_str(json).val)
                                      ELSE ErrEvent("SerializationError"))
    /\ UNCHANGED <<pc, wire, errs, pings, stopAttached>>

\* a close frame that is reported but does not end the loop
CloseReceived_noBreak ==
    /\ Broadcast(ErrEvent("ConnectionClosed"))
    /\ UNCHANGED <<pc, wire, errs, pings, stopAttached>>

\* Ok(Message::Close(_)): ConnectionClosed is broadcast; break 'out
CloseReceived ==
    /\ Broadcast(ErrEvent("ConnectionClosed"))
    /\ pc' = "exited"
    /\ stopAttached' = Attached
    /\ UNCHANGED <<wire, errs, pings>>

\* Err(e): the transport error is broadcast and the loop goes on
ReadFailed ==
    /\ Broadcast(ErrEvent("WebSocketError"))
    /\ errs' = Append(errs, "read")
    /\ UNCHANGED <<pc, wire, pings, stopAttached>>

\* an arm that answers a ping of the peer itself
OtherReceived_pong(item) ==
    /\ pings' = IF item.kind = "Ping" THEN Append(pings, item.data) ELSE pings
    /\ wire' = IF item.kind = "Ping" THEN Append(wire, Pong(item.data)) ELSE wire
    /\ UNCHANGED <<pc, sent, errs, stopAttached>>

\* Ok(any other message), a ping of the peer among them: _ => {}
OtherReceived(item) ==
    /\ pings' = IF item.kind = "Ping" THEN Append(pings, item.data) ELSE pings
    /\ UNCHANGED <<pc, wire, sent, errs, stopAttached>>

\* a third arm that is taken whatever the first two arms have ready
SelectInbound_unbiased ==
    /\ pc = "select"
    /\ inbound /= <<>>
    /\ inbound' = Tail(inbound)
    /\ LET item == Head(inbound) IN
       CASE item.kind = "Text" -> TextReceived(item.json)
         [] item.kind = "Close" -> CloseReceived
         [] item.kind = "Err" -> ReadFailed
         [] OTHER -> OtherReceived(item)
    /\ UNCHANGED <<to_kalshi, cur, tickDue, missed>>
    /\ SupervisorFrame

\* select_biased!, third arm: one item of the socket
SelectInbound ==
    /\ pc = "select"
    /\ ~RecvReady
    /\ ~tickDue
    /\ inbound /= <<>>
    /\ inbound' = Tail(inbound)
    /\ LET item == Head(inbound) IN
       CASE item.kind = "Text" -> TextReceived(item.json)
         [] item.kind = "Close" -> CloseReceived
         [] item.kind = "Err" -> ReadFailed
         [] OTHER -> OtherReceived(item)
    /\ UNCHANGED <<to_kalshi, cur, tickDue, missed>>
    /\ SupervisorFrame

Supervisor ==
    \/ SelectCommand
    \/ CommandWritten
    \/ CommandWriteFails
    \/ SelectSendersDropped
    \/ SelectHeartbeat
    \/ PingWritten
    \/ PingWriteFails
    \/ SelectInbound

Next ==
    \/ \E in \in SubscribeInputs : Subscribe(in[1], in[2])
    \/ \E sids \in SidLists : Unsubscribe(sids)
    \/ \E sid \in Sids, market_tickers \in UpdateTickerLists, action \in Actions :
           UpdateSubscription(sid, market_tickers, action)
    \/ \E c \in ConsumerIds : ReceiverCall(c)
    \/ Close
    \/ DropHandle
    \/ \E c \in ConsumerIds : Recv(c)
    \/ \E c \in ConsumerIds : ConsumerDrop(c)
    \/ Tick
    \/ \E item \in InboundItems : PeerSend(item)
    \/ Supervisor

Spec == Init /\ [][Next]_vars

\* the demultiplexer alone: the caller makes no call and attaches no consumer,
\* the peer sends any of DemuxItems
DemuxNext ==
    \/ Tick
    \/ \E item \in DemuxItems : PeerSend(item)
    \/ SelectHeartbeat
    \/ PingWritten
    \/ PingWriteFails
    \/ SelectInbound

DemuxSpec == Init /\ [][DemuxNext]_vars

\* the busy feed and its two receivers
LagNext ==
    \/ \E item \in LagItems : PeerSend(item)
    \/ SelectInbound
    \/ \E c \in ConsumerIds : Recv(c)

LagSpec == LagInit /\ [][LagNext]_vars

\* the decoder alone: the first tick has been served, the socket holds two
\* texts of DecodeTexts, the caller makes no call and attaches no consumer
DecodeInit ==
    /\ next_cmd_id = FirstCmdId
    /\ handle = "live"
    /\ to_kalshi = <<>>
    /\ pc = "select"
    /\ cur = NoCmd
    /\ wire = <<PingFrame>>
    /\ tickDue = FALSE
    /\ missed = 0
    /\ events = 0
    /\ \E a \in DecodeTexts, b \in DecodeTexts :
           inbound = <<TextFrame(a), TextFrame(b)>>
    /\ sent = <<>>
    /\ consumers = [c \in ConsumerIds |-> NoReceiver]
    /\ ncalls = 0
    /\ lastCall = [op |-> "none", channels |-> <<>>, market_tickers |-> <<>>,
                   res |-> "none", id |-> U32(0, 0)]
    /\ returned = <<>>
    /\ enq = <<>>
    /\ errs = <<>>
    /\ pings = <<>>
    /\ stopAttached = {}
    /\ signing = NotSigning
    /\ kalshi = NoKalshi
    /\ conn = NotConnecting
    /\ fetch = NotFetching

DecodeNext == SelectInbound

DecodeSpec == DecodeInit /\ [][DecodeNext]_vars

\* a connection that has lived long: next_cmd_id started at 1 and every
\* successful call added 1 to it, so it stands at u32::MAX, or one below,
\* after as many successful calls less one. Of the commands enqueued and the
\* ids returned so far the state keeps the first, the subscribe that got id
\* 1; all of them have been written, the first tick has been served, and the
\* calls are counted from here
MaxId == U32(Half - 1, Half - 1)
WrapCounters == {U32(Half - 1, Half - 2), MaxId}
FirstCommand == SubscribeCmd(FirstCmdId, <<"Ticker">>, <<>>)

WrapInit ==
    /\ next_cmd_id \in WrapCounters
    /\ handle = "live"
    /\ to_kalshi = <<>>
    /\ pc = "select"
    /\ cur = NoCmd
    /\ wire = <<TextFrame(to_string(FirstCommand))>>
    /\ tickDue = FALSE
    /\ missed = 0
    /\ events = 0
    /\ inbound = <<>>
    /\ sent = <<>>
    /\ consumers = [c \in ConsumerIds |-> NoReceiver]
    /\ ncalls = 0
    /\ lastCall = Call("subscribe", <<"Ticker">>, <<>>, "Ok", FirstCmdId)
    /\ returned = <<FirstCmdId>>
    /\ enq = <<FirstCommand>>
    /\ errs = <<>>
    /\ pings = <<>>
    /\ stopAttached = {}
    /\ signing = NotSigning
    /\ kalshi = NoKalshi
    /\ conn = NotConnecting
    /\ fetch = NotFetching

\* the caller goes on calling and the supervisor writes what is queued
WrapNext ==
    \/ \E in \in SubscribeInputs : Subscribe(in[1], in[2])
    \/ \E sids \in SidLists : Unsubscribe(sids)
    \/ \E sid \in Sids, market_tickers \in UpdateTickerLists, action \in Actions :
           UpdateSubscription(sid, market_tickers, action)
    \/ SelectCommand
    \/ CommandWritten

WrapSpec == WrapInit /\ [][WrapNext]_vars

\* subscriptions alone: the caller subscribes to any of ChannelInputs and the
\* supervisor writes the commands
ChannelNext ==
    \/ \E in \in ChannelInputs : Subscribe(in[1], in[2])
    \/ SelectCommand
    \/ CommandWritten
    \/ CommandWriteFails

ChannelSpec == Init /\ [][ChannelNext]_vars

\* the runtime keeps polling the spawned supervisor task, and an awaited write
\* completes, with Ok or with Err
FairSpec == Spec /\ WF_vars(Supervisor)

\* ================================================================= claims
\* the command frames on the wire, in the order written
CommandFrames == SelectSeq(wire, LAMBDA f : f.kind = "Text")

\* a terminal event: the connection closed, or a transport error
IsTerminal(ev) == ev.res = "Err" /\ ev.err \in {"ConnectionClosed", "WebSocketError"}

\* the request the server does not support: order-book deltas of all markets
OrderbookOfAllMarkets(channels, market_tickers, name) ==
    (\E i \in DOMAIN channels : channels[i] = name) /\ market_tickers = <<>>

\* C1: on one connection every successful subscribe, unsubscribe or
\* update_subscription call returns an id strictly greater than the id of every
\* earlier successful call.
C1_IdsStrictlyIncrease ==
    \A i, j \in 1..Len(returned) : i < j => IdLess(returned[i], returned[j])

C1_Witness ==
    /\ Len(returned) >= 3
    /\ \E i, j, k \in 1..Len(enq) :
          /\ enq[i].cmd = "Subscribe"
          /\ enq[j].cmd = "Unsubscribe"
          /\ enq[k].cmd = "UpdateSubscription"

\* C2: a subscribe whose channel list contains the order-book-delta channel, with
\* an empty market list, returns a validation error whatever else the list holds
\* and whatever the state of the connection; no such command is ever enqueued and
\* no frame for it is ever written.
C2_OrderbookOfAllMarketsRejected ==
    /\ (lastCall.op = "subscribe"
          /\ OrderbookOfAllMarkets(lastCall.channels, lastCall.market_tickers,
                                   "OrderbookDelta"))
       => lastCall.res = "ValidationError"
    /\ \A i \in 1..Len(enq) :
          enq[i].cmd = "Subscribe"
          => ~OrderbookOfAllMarkets(enq[i].params.channels,
                                    enq[i].params.market_tickers, "OrderbookDelta")
    /\ \A i \in 1..Len(CommandFrames) :
          CommandFrames[i].json.cmd = "subscribe"
          => ~OrderbookOfAllMarkets(CommandFrames[i].json.params.channels,
                                    CommandFrames[i].json.params.market_tickers,
                                    "orderbook_delta")

C2_Witness ==
    /\ lastCall.op = "subscribe"
    /\ lastCall.res = "ValidationError"
    /\ Len(lastCall.channels) > 1
    /\ Stopped

\* C3: a locally rejected subscribe leaves the id counter and the command queue
\* unchanged, so the ids of the successful calls are consecutive from the first
\* id whatever rejected calls were made in between.
C3_RejectedCall == ncalls' = ncalls + 1 /\ lastCall'.res = "ValidationError"

C3_RejectedConsumesNoId ==
    /\ [][C3_RejectedCall => (next_cmd_id' = next_cmd_id /\ to_kalshi' = to_kalshi)]_vars
    /\ [](\A i \in 1..Len(returned) : returned[i] = U32(0, i))

C3_Witness ==
    /\ lastCall.res = "Ok"
    /\ ~Stopped
    /\ ncalls > Len(returned)

\* C4: command frames are written in the order the calls enqueued them: the i-th
\* command frame on the wire is the frame of the i-th command enqueued, under
\* every interleaving with heartbeat ticks and inbound frames.
C4_FramesInEnqueueOrder ==
    /\ Len(CommandFrames) <= Len(enq)
    /\ \A i \in 1..Len(CommandFrames) : CommandFrames[i].json = to_string(enq[i])

C4_Witness ==
    /\ Len(CommandFrames) >= 2
    /\ \E i \in 1..Len(wire) : wire[i].kind = "Ping" /\ 1 < i /\ i < Len(wire)
    /\ \E i \in 1..Len(sent) : sent[i].res = "Ok"

\* C5: the locally synthesized End command is never written to the socket; only
\* subscribe, unsubscribe and update_subscription produce a command frame.
C5_EndNeverOnWire ==
    \A i \in 1..Len(CommandFrames) :
        CommandFrames[i].json.cmd \in {"subscribe", "unsubscribe", "update_subscription"}

\* C6: when the supervisor dequeues End it exits its loop in that step, without
\* writing a frame.
C6_DequeuesEnd ==
    /\ pc = "select"
    /\ to_kalshi /= <<>>
    /\ Head(to_kalshi).cmd = "End"
    /\ to_kalshi' = Tail(to_kalshi)

C6_EndExitsLoop == [][C6_DequeuesEnd => (pc' = "exited" /\ wire' = wire)]_vars

\* C7: after a transport error on a read, a command write or a ping write the
\* supervisor has left its loop.
C7_TransportErrorStops == errs /= <<>> => Stopped

\* C8: whenever the supervisor task has stopped, every consumer attached at that
\* moment has been sent a terminal event.
C8_StopBroadcastsTerminal ==
    Stopped => \A c \in stopAttached :
                  \E i \in consumers[c].from..Len(sent) : IsTerminal(sent[i])

\* C9: every transport error is broadcast as an error event in the step in
\* which it occurs.
C9_TransportErrorBroadcast ==
    [][Len(errs') > Len(errs) => sent' = Append(sent, ErrEvent("WebSocketError"))]_vars

\* C10: once the handle is dropped without close, the supervisor eventually
\* exits its loop having sent a terminal event to every consumer attached then.
C10_Dropped == handle = "dropped" /\ \A i \in 1..Len(enq) : enq[i].cmd /= "End"

C10_DropLeadsToTerminal ==
    C10_Dropped ~> (pc = "exited" /\ C8_StopBroadcastsTerminal)

\* C11: when the supervisor reads a close frame of the peer it broadcasts one
\* ConnectionClosed event, which reaches every attached consumer, and leaves its
\* loop; once it has left, it reads and decodes no further inbound frame.
C11_ReadsClose ==
    /\ pc = "select"
    /\ inbound /= <<>>
    /\ Head(inbound).kind = "Close"
    /\ inbound' = Tail(inbound)

C11_PeerCloseStops ==
    /\ [][C11_ReadsClose =>
             /\ sent' = Append(sent, ErrEvent("ConnectionClosed"))
             /\ pc' = "exited"
             /\ \A c \in Attached : consumers'[c].from <= Len(sent')]_vars
    /\ [][pc = "exited" => (pc' = pc /\ sent' = sent /\ inbound' = inbound)]_vars

C11_Witness ==
    /\ pc = "exited"
    /\ handle = "live"
    /\ Attached /= {}
    /\ sent /= <<>>
    /\ sent[Len(sent)] = ErrEvent("ConnectionClosed")
    /\ inbound /= <<>>
    /\ Head(inbound).kind = "Text"

\* C12: an inbound text that fails decoding, for a type that is not recognized,
\* a nested event_type that is not recognized, or a payload that does not have
\* the shape of its variant, makes the supervisor broadcast exactly one
\* decode-error event and stay in its loop; the event of every text read is
\* the one of that text alone, whatever was read before it.
C12_RecognizedTypes ==
    {"orderbook_snapshot", "orderbook_delta", "ticker", "trade", "fill",
     "event_lifecycle", "market_lifecycle_v2", "subscribed", "error", "ok"}

C12_RecognizedEventTypes ==
    {"created", "activated", "deactivated", "close_date_updated", "determined",
     "settled"}

C12_FailsDecoding(json) ==
    \/ json.v.type.v \notin C12_RecognizedTypes
    \/ /\ json.v.type.v = "market_lifecycle_v2"
       /\ json.v.msg.v.event_type.v \notin C12_RecognizedEventTypes
    \/ json \in {StringPriceTradeText, NoCountTradeText}

C12_ReadsText ==
    /\ pc = "select"
    /\ inbound /= <<>>
    /\ Head(inbound).kind = "Text"
    /\ inbound' = Tail(inbound)

C12_DecodeErrorIsLocal ==
    [][C12_ReadsText =>
         /\ pc' = "select"
         /\ Len(sent') = Len(sent) + 1
         /\ SubSeq(sent', 1, Len(sent)) = sent
         /\ IF C12_FailsDecoding(Head(inbound).json)
            THEN sent'[Len(sent')] = ErrEvent("SerializationError")
            ELSE sent'[Len(sent')] = OkEvent(from_str(Head(inbound).json).val)]_vars

C12_Witness ==
    /\ pc = "select"
    /\ Len(sent) = 3
    /\ sent[1] = ErrEvent("SerializationError")
    /\ sent[2].res = "Ok" /\ sent[2].val.variant = "Trade"
    /\ sent[3] = ErrEvent("SerializationError")
    /\ inbound = <<>>

\* the receivers that exist
C13_Receivers == {c \in ConsumerIds : consumers[c].st /= "none"}

\* C13 as stated: every consumer attached before an event is broadcast observes
\* that event: no receiver ever loses a value.
C13_EveryEventObserved == \A c \in C13_Receivers : consumers[c].skipped = 0

\* C13: each consumer observes the events in the order the supervisor broadcast
\* them, so two consumers never observe two events in opposite order, and every
\* event broadcast after a consumer attached and before the one it reads next
\* was either returned to it or reported to it as lost; an event is lost only
\* to a consumer by which more than Capacity (1024) events are unread.
C13_InOrderUnlessLagging ==
    /\ [](\A c \in C13_Receivers :
            /\ consumers[c].pos - consumers[c].from
                   = consumers[c].n + consumers[c].skipped
            /\ consumers[c].got < consumers[c].pos
            /\ consumers[c].pos <= Len(sent) + 1)
    /\ [][\A c \in C13_Receivers :
            /\ consumers'[c].n > consumers[c].n
                  => /\ consumers'[c].got > consumers[c].got
                     /\ consumers'[c].got = consumers[c].pos
            /\ consumers'[c].skipped > consumers[c].skipped
                  => Len(sent) - consumers[c].pos + 1 > Capacity]_vars

C13_Witness ==
    /\ consumers[1].skipped > 0
    /\ consumers[1].n > 0
    /\ consumers[2].skipped = 0
    /\ consumers[2].got = Len(sent)
    /\ consumers[1].got < consumers[2].got

\* C14: a consumer that reads slowly or not at all does not block the
\* supervisor: a broadcast step is possible whatever the receivers have read,
\* and it changes no receiver; a recv of one consumer changes no other
\* consumer; a consumer loses events only once more than Capacity (1024) events
\* are unread by it.
C14_SlowConsumerHarmsItselfOnly ==
    /\ []((pc = "select" /\ ~RecvReady /\ ~tickDue /\ inbound /= <<>>)
            => ENABLED SelectInbound)
    /\ [][/\ sent' /= sent => consumers' = consumers
          /\ \A c \in C13_Receivers :
                consumers'[c].skipped > consumers[c].skipped
                   => /\ Lagging(consumers[c])
                      /\ \A d \in ConsumerIds \ {c} : consumers'[d] = consumers[d]]_vars

C14_Witness ==
    /\ Len(sent) > Capacity + 1
    /\ consumers[1].skipped > 0
    /\ consumers[1].pos <= Len(sent)
    /\ consumers[2].skipped = 0
    /\ consumers[2].n = Len(sent)

\* a step in which the supervisor's select picks an arm
C15_Selects ==
    /\ pc = "select"
    /\ \/ pc' /= pc
       \/ Len(to_kalshi') < Len(to_kalshi)
       \/ Len(inbound') < Len(inbound)
       \/ tickDue /\ ~tickDue'

\* C15: in a selection step in which both a queued command and a due heartbeat
\* tick are ready the supervisor takes the command and leaves the tick waiting;
\* the heartbeat arm, which writes the ping, is taken only in a step in which
\* the command queue is empty.
C15_CommandBeatsHeartbeat ==
    /\ [][(C15_Selects /\ to_kalshi /= <<>> /\ tickDue)
            => /\ cur' = Head(to_kalshi)
               /\ pc' = "cmd_write"
               /\ tickDue' /\ missed' = missed
               /\ wire' = wire /\ inbound' = inbound]_vars
    /\ [][(C15_Selects /\ pc' = "ping_write") => to_kalshi = <<>>]_vars
    /\ [][(Len(wire') > Len(wire) /\ wire'[Len(wire')].kind = "Ping")
            => pc = "ping_write"]_vars

C15_Witness ==
    /\ pc = "cmd_write"
    /\ tickDue
    /\ events = 1
    /\ ncalls = 1
    /\ wire = <<>>

\* the supervisor takes the heartbeat tick
C16_TakesTick == pc = "select" /\ pc' = "ping_write"

\* C16: however many heartbeat periods elapsed while the supervisor was
\* stalled, it writes one ping for them: when it takes the waiting tick the
\* missed ticks are dropped with it, and no tick is ready again before a
\* further period has elapsed.
C16_MissedTicksSkipped ==
    /\ [][C16_TakesTick => (~tickDue' /\ missed' = 0)]_vars
    /\ [][(~tickDue /\ tickDue') => events' = events + 1]_vars
    /\ [](missed > 0 => tickDue)

\* the first tick and two more were missed before the supervisor ran; it is
\* writing the one ping for the three of them
C16_Witness ==
    /\ pc = "ping_write"
    /\ ~tickDue /\ missed = 0
    /\ events = 2
    /\ ncalls = 0 /\ handle = "live"
    /\ inbound = <<>> /\ wire = <<>> /\ sent = <<>> /\ pings = <<>>
    /\ \A c \in ConsumerIds : consumers[c].st = "none"

C17_ReadsPing ==
    /\ pc = "select"
    /\ inbound /= <<>>
    /\ Head(inbound).kind = "Ping"
    /\ inbound' = Tail(inbound)

C18_Call ==
    /\ ncalls' = ncalls + 1
    /\ ~Stopped
    /\ lastCall'.res /= "ValidationError"

\* C18: subscribe, unsubscribe and update_subscription return as soon as the
\* command is enqueued: a call can be made whatever the queue holds and
\* wherever the supervisor is, and it completes in its own step, with the id
\* of the command it appended, without any step of the supervisor.
C18_CallsDoNotWait ==
    /\ []((handle = "live" /\ events < MaxEvents)
            => /\ \A in \in SubscribeInputs : ENABLED Subscribe(in[1], in[2])
               /\ \A sids \in SidLists : ENABLED Unsubscribe(sids)
               /\ \A sid \in Sids, market_tickers \in UpdateTickerLists,
                     action \in Actions :
                        ENABLED UpdateSubscription(sid, market_tickers, action))
    /\ [][C18_Call =>
             /\ lastCall'.res = "Ok"
             /\ lastCall'.id = next_cmd_id
             /\ Len(to_kalshi') = Len(to_kalshi) + 1
             /\ to_kalshi'[Len(to_kalshi')].id = lastCall'.id
             /\ SubSeq(to_kalshi', 1, Len(to_kalshi)) = to_kalshi
             /\ returned' = Append(returned, lastCall'.id)
             /\ UNCHANGED <<pc, cur, wire>>]_vars

\* three calls have returned their ids and the supervisor has not yet run
C18_Witness ==
    /\ Len(returned) = 3
    /\ Len(to_kalshi) = 3
    /\ lastCall.res = "Ok"
    /\ pc = "select" /\ cur = NoCmd /\ wire = <<>> /\ tickDue

\* C19: every decoded acknowledgement or error event (subscribed, ok, error)
\* exposes the id of the originating command, here the id 1 that the texts of
\* the peer carry.
C19_AckExposesCommandId ==
    \A i \in 1..Len(sent) :
        (sent[i].res = "Ok" /\ sent[i].val.variant \in {"Subscribed", "Ok", "Error"})
           => /\ "id" \in DOMAIN sent[i].val.fields
              /\ sent[i].val.fields.id = FirstCmdId

\* the inputs that differ from a in exactly one of timestamp, method and path
C20_OneChange(a) ==
    {b \in SigningInputs :
        Cardinality({f \in {"ts", "method", "path"} : a[f] /= b[f]}) = 1}

\* the inputs the crate itself signs: a standard method and a URL path
C20_OfCrate(a) == a.method \in StandardMethods /\ a.path \in ApiPaths

\* C20: the string signed for a request is the decimal timestamp, the method
\* token and the path, in this order and with nothing between them; for
\* timestamp T, method GET and path /trade-api/v2/markets it is
\* "{T}GET/trade-api/v2/markets"; it differs when one of timestamp, method and
\* path changes, and, for standard methods and URL paths, when any of them do.
C20_SignedMessage ==
    signing.st = "signed" =>
        LET in == signing.in
            m == signing.msg_string
        IN  /\ m = ToString(in.ts) \o in.method \o in.path
            /\ Len(m) = Len(ToString(in.ts)) + Len(in.method) + Len(in.path)
            /\ (in.method = "GET" /\ in.path = "/trade-api/v2/markets")
                  => m = ToString(in.ts) \o "GET/trade-api/v2/markets"
            /\ (in.ts = 1759350609 /\ in.method = "GET"
                   /\ in.path = "/trade-api/v2/markets")
                  => m = "1759350609GET/trade-api/v2/markets"
            /\ \A b \in C20_OneChange(in) : msg_string(b.ts, b.method, b.path) /= m
            /\ C20_OfCrate(in)
                  => \A b \in SigningInputs :
                        (C20_OfCrate(b) /\ b /= in)
                           => msg_string(b.ts, b.method, b.path) /= m

C20_Witness ==
    /\ signing.st = "signed"
    /\ signing.in = [ts |-> 1759350609, method |-> "GET",
                     path |-> "/trade-api/v2/markets"]

\* the three headers of a signed request, as api_key_headers names them
C21_ThreeHeaders(key_id, sig, ts) ==
    <<<<"KALSHI-ACCESS-KEY", key_id>>, <<"KALSHI-ACCESS-SIGNATURE", sig>>,
      <<"KALSHI-ACCESS-TIMESTAMP", ToString(ts)>>>>

\* C21: header generation with a key-pair credential is all or nothing: a
\* call that succeeds returns exactly the three headers access key, access
\* signature and access timestamp; when the clock cannot be read or signing
\* fails the call returns an error that carries no header, and the signer was
\* asked at most once.
C21_AllOrNothing ==
    /\ signing.st \in {"signed", "unsigned"}
          => LET r == signing.res
                 out == signing.out
             IN  /\ r.ok <=> (out.clock_ok /\ out.sign.ok)
                 /\ r.ok => r.val = C21_ThreeHeaders(signing.key_id, out.sign.sig,
                                                     signing.in.ts)
                 /\ ~r.ok => "val" \notin DOMAIN r
                 /\ Len(signing.signed) = (IF out.clock_ok THEN 1 ELSE 0)
    /\ (signing.st = "generated" /\ signing.auth.kind = "ApiKey")
          => LET r == signing.res
                 out == signing.out
             IN  /\ (~out.clock_ok \/ ~out.sign.ok) => ~r.ok
                 /\ r.ok => /\ Len(r.val) = 3
                            /\ r.val[1] = <<"kalshi-access-key", signing.auth.key_id>>
                            /\ r.val[2] = <<"kalshi-access-signature", out.sign.sig>>
                            /\ r.val[3] = <<"kalshi-access-timestamp",
                                            ToString(signing.in.ts)>>
                 /\ ~r.ok => "val" \notin DOMAIN r
                 /\ Len(signing.signed) = (IF out.clock_ok THEN 1 ELSE 0)

C21_Witness ==
    /\ signing.st = "generated"
    /\ signing.auth.kind = "ApiKey"
    /\ signing.out.clock_ok
    /\ ~signing.out.sign.ok
    /\ ~signing.res.ok
    /\ signing.signed = <<"1759350609GET/trade-api/ws/v2">>

\* the path component of each WebSocket URL of the crate
C22_PathOf(ws_url) ==
    CASE ws_url = "wss://api.elections.kalshi.com/trade-api/ws/v2" -> "/trade-api/ws/v2"
      [] ws_url = "wss://trading-api.kalshi.com/v1/ws" -> "/v1/ws"
      [] ws_url = "wss://demo-api.kalshi.co/trade-api/ws/v2" -> "/trade-api/ws/v2"

\* the names of the headers of a request
C22_Names(req) == {req.headers[i][1] : i \in 1..Len(req.headers)}

C22_AuthNames == {"authorization", "kalshi-access-key", "kalshi-access-signature",
                  "kalshi-access-timestamp"}

\* C22: connect derives the path of the WebSocket URL, generates the auth
\* headers for GET and that path, attaches them to the upgrade request and
\* only then attempts the upgrade; when header generation fails (a bearer
\* credential without a token included) no upgrade request is sent.
C22_ConnectOrder ==
    /\ conn.st = "headers"
          => /\ conn.ws_api_path = C22_PathOf(kalshi.ws_url)
             /\ conn.signed = <<>>
             /\ C22_Names(conn.req) \cap C22_AuthNames = {}
             /\ conn.requests = <<>>
    /\ conn.st = "attach"
          => /\ conn.generated.ok
             /\ C22_Names(conn.req) \cap C22_AuthNames = {}
             /\ conn.requests = <<>>
    /\ conn.st = "upgrade"
          => /\ \A i \in 1..Len(conn.auth_headers) :
                    \E j \in 1..Len(conn.req.headers) :
                        conn.req.headers[j] = conn.auth_headers[i]
             /\ conn.requests = <<>>
    /\ conn.st \in {"attach", "upgrade", "handshake"}
          => /\ conn.auth_headers /= <<>>
             /\ kalshi.auth.kind = "ApiKey"
                   => conn.signed =
                          <<ToString(conn.ts) \o "GET" \o C22_PathOf(kalshi.ws_url)>>
             /\ kalshi.auth.kind = "EmailPassword"
                   => /\ kalshi.curr_token.some
                      /\ conn.auth_headers = <<<<"authorization", kalshi.curr_token.v>>>>
    /\ conn.st = "handshake"
          => /\ conn.requests = <<conn.req>>
             /\ conn.req.uri = kalshi.ws_url
             /\ \A i \in 1..Len(conn.auth_headers) :
                    \E j \in 1..Len(conn.req.headers) :
                        conn.req.headers[j] = conn.auth_headers[i]
    /\ (conn.st /= "none" /\ kalshi.auth.kind = "EmailPassword"
           /\ ~kalshi.curr_token.some)
          => conn.requests = <<>>
    /\ (conn.st = "returned" /\ "generated" \in DOMAIN conn)
          => /\ ~conn.generated.ok
             /\ ~conn.res.ok
             /\ conn.requests = <<>>
    /\ conn.st /= "none" => Len(conn.requests) <= 1

C22_Witness ==
    /\ conn.st = "handshake"
    /\ kalshi.auth.kind = "ApiKey"
    /\ conn.signed = <<"1759350609GET/v1/ws">>
    /\ "kalshi-access-signature" \in C22_Names(conn.requests[1])

\* C23: when the server turns the upgrade down connect returns an error and
\* has created nothing: no supervisor task, no command queue, no event
\* stream, no client handle.
C23_RejectedCreatesNothing ==
    /\ (conn.st = "returned" /\ ~conn.res.ok)
          => /\ conn.created = {}
             /\ pc = "unspawned"
             /\ handle = "none"
             /\ to_kalshi = <<>> /\ enq = <<>> /\ sent = <<>> /\ wire = <<>>
    /\ (pc /= "unspawned" \/ handle /= "none" \/ (conn.st /= "none" /\ conn.created /= {}))
          => /\ conn.st = "returned"
             /\ conn.res.ok
             /\ conn.created = Connection
             /\ pc = "select" /\ handle = "live" /\ next_cmd_id = FirstCmdId

C23_Witness ==
    /\ conn.st = "returned"
    /\ conn.res = [ok |-> FALSE, err |-> [kind |-> "Http", msg |-> "401"]]
    /\ Len(conn.requests) = 1
    /\ pc = "unspawned"

\* key material that is the PEM of an RSA private key
C24_WellFormed(key) == key.pem /\ key.alg = "RSA"

\* C24: construction from malformed private-key material fails at
\* construction: it ends in a panic and leaves no instance; every instance
\* with a key-pair credential holds well-formed key material, and no message
\* is ever handed to a signer made from malformed material.
C24_MalformedKeyFailsAtConstruction ==
    /\ kalshi.st = "panicked"
          => /\ ~C24_WellFormed(kalshi.key)
             /\ conn = NotConnecting
    /\ (kalshi.st = "built" /\ kalshi.auth.kind = "ApiKey")
          => C24_WellFormed(kalshi.auth.key)
    /\ (conn.st /= "none" /\ conn.signed /= <<>>)
          => /\ kalshi.st = "built"
             /\ kalshi.auth.kind = "ApiKey"
             /\ C24_WellFormed(kalshi.auth.key)

C24_Witness ==
    /\ kalshi.st = "panicked"
    /\ kalshi.key = [pem |-> TRUE, alg |-> "EC"]
    /\ conn = NotConnecting

\* the wire-name of each channel
C25_WireName ==
    [OrderbookDelta |-> "orderbook_delta", Ticker |-> "ticker", Trade |-> "trade",
     Fill |-> "fill", MarketLifecycleV2 |-> "market_lifecycle_v2"]

\* every channel of every subscribe frame written so far carries the
\* wire-name of the channel the caller passed, and no two channels share one
C25_FixedInjectiveNames ==
    /\ \A a, b \in KalshiChannel : a /= b => as_str(a) /= as_str(b)
    /\ \A k \in 1..Len(wire) :
          (wire[k].kind = "Text" /\ wire[k].json.cmd = "subscribe")
             => /\ k <= Len(enq)
                /\ Len(wire[k].json.params.channels) = Len(enq[k].params.channels)
                /\ \A i \in 1..Len(enq[k].params.channels) :
                      wire[k].json.params.channels[i]
                         = C25_WireName[enq[k].params.channels[i]]

\* C25 as stated: the channels a caller can subscribe to are exactly the six
\* order-book delta, ticker, trade, fill, market-lifecycle and
\* event-lifecycle, each with a wire-name of its own.
C25_SixChannels ==
    /\ Cardinality(KalshiChannel) = 6
    /\ \E ch \in KalshiChannel : as_str(ch) = "event_lifecycle"
    /\ C25_FixedInjectiveNames

\* C25: the channels a caller can subscribe to are exactly the five
\* order-book delta, ticker, trade, fill and market-lifecycle (there is no
\* event-lifecycle channel), and the mapping from channel to wire-name is
\* injective: each channel has its own fixed wire-name.
C25_FiveChannels ==
    /\ KalshiChannel = DOMAIN C25_WireName
    /\ Cardinality(KalshiChannel) = 5
    /\ \A ch \in KalshiChannel : as_str(ch) /= "event_lifecycle"
    /\ \A k \in 1..Len(enq) :
          enq[k].cmd = "Subscribe"
             => \A i \in 1..Len(enq[k].params.channels) :
                    enq[k].params.channels[i] \in KalshiChannel
    /\ C25_FixedInjectiveNames

C25_Witness ==
    \E k \in 1..Len(wire) :
        /\ wire[k].kind = "Text"
        /\ wire[k].json.cmd = "subscribe"
        /\ wire[k].json.params.channels
              = <<"orderbook_delta", "ticker", "trade", "fill", "market_lifecycle_v2">>

\* the sids acknowledged as subscribed among the events broadcast so far
C26_Acknowledged ==
    {sent[i].val.fields.msg.sid :
        i \in {j \in 1..Len(sent) : /\ sent[j].res = "Ok"
                                    /\ sent[j].val.variant = "Subscribed"}}

\* C26: for each server-assigned sid a subscription record exists from the
\* receipt of the successful subscribe acknowledgement until the unsubscribe
\* acknowledgement or the loss of the connection (no frame of the inbound
\* protocol acknowledges an unsubscribe, so here: while the supervisor runs).
C26_RecordKept ==
    ~Stopped => \A sid \in C26_Acknowledged : sid \in SubscriptionRecords

\* C27: when the supervisor has left its loop because of a termination (the
\* handle was closed or dropped, or the peer sent a close frame), it has
\* before that written a close frame to the socket or shut the socket down.
C27_CloseAttemptedOnExit ==
    pc = "exited" => \E k \in 1..Len(wire) : wire[k].kind \in {"Close", "Shutdown"}

\* the values of the cursor parameter of a request
C28_CursorsOf(req) ==
    [i \in 1..Cardinality({j \in 1..Len(req.params) : req.params[j][1] = "cursor"}) |->
        LET idx == {j \in 1..Len(req.params) : req.params[j][1] = "cursor"}
            j == CHOOSE j \in idx : Cardinality({h \in idx : h <= j}) = i
        IN  req.params[j][2]]

\* the parameters of a request other than the cursor
C28_Filters(req) ==
    {req.params[j] : j \in {h \in 1..Len(req.params) : req.params[h][1] /= "cursor"}}

\* C28: when all pages are requested (limit is None) the first request
\* carries no cursor, each later request carries exactly the cursor the
\* server returned for the page before it, and once a response carried the
\* empty string as its cursor no further request is issued.
C28_FollowsCursor ==
    ("retrieve_all" \in DOMAIN fetch /\ fetch.retrieve_all)
       => /\ Len(fetch.requests) >= 1 => C28_CursorsOf(fetch.requests[1]) = <<>>
          /\ \A k \in 2..Len(fetch.requests) :
                /\ k - 1 <= Len(fetch.responses)
                /\ C28_CursorsOf(fetch.requests[k])
                      = <<fetch.responses[k - 1].v.cursor.v>>
                /\ C28_Filters(fetch.requests[k]) = C28_Filters(fetch.requests[1])
          /\ \A k \in 1..Len(fetch.responses) :
                fetch.responses[k].v.cursor = JStr("")
                   => /\ Len(fetch.requests) = k
                      /\ fetch.st \in {"done", "dropped"}

C28_Witness ==
    /\ fetch.st = "done"
    /\ fetch.retrieve_all
    /\ Len(fetch.requests) = 3
    /\ Len(fetch.responses) = 3
    /\ C28_CursorsOf(fetch.requests[2]) = <<"c1">>
    /\ C28_CursorsOf(fetch.requests[3]) = <<"c2">>
    /\ fetch.responses[3].v.cursor = JStr("")

\* C29: a text whose type is one of the recognised tags and whose payload
\* carries the fields of that variant is broadcast as that variant, with the
\* sid and the payload values of the text; the same text with members that
\* the variant does not name (seq, id, trade_id, market_id, *_dollars prices,
\* Clock) in the frame and in its payload is broadcast as the same value and
\* never as a decoding error.
C29_Expected ==
    [orderbook_snapshot |->
         [variant |-> "OrderbookSnapshot",
          fields |-> [sid |-> U32(0, 2), seq |-> U32(0, 1),
                      msg |-> [market_ticker |-> "M1",
                               yes |-> Some(<<<<U32(0, 27), 100>>>>),
                               no |-> None]]],
     orderbook_delta |->
         [variant |-> "OrderbookDelta",
          fields |-> [sid |-> U32(0, 2), seq |-> U32(0, 2),
                      msg |-> [delta |-> -5, price |-> U32(0, 27), side |-> "yes",
                               client_order_id |-> None]]],
     ticker |->
         [variant |-> "Ticker",
          fields |-> [sid |-> U32(0, 1),
                      msg |-> [market_ticker |-> "KXNFLFIRSTTD-25OCT05NYGNO-NOSRATTLER2",
                               price |-> U32(0, 0), yes_bid |-> U32(0, 0),
                               yes_ask |-> U32(0, 3), volume |-> U32(0, 0),
                               open_interest |-> U32(0, 0),
                               dollar_volume |-> U32(0, 0),
                               dollar_open_interest |-> U32(0, 0),
                               ts |-> U32(26845, 37995)]]],
     trade |->
         [variant |-> "Trade",
          fields |-> [sid |-> U32(0, 1),
                      msg |-> [market_ticker |-> "KXHIGHCHI-25OCT02-B80.5",
                               yes_price |-> U32(0, 27), no_price |-> U32(0, 73),
                               count |-> U32(0, 7), taker_side |-> "Yes",
                               ts |-> U32(26845, 36689)]]],
     fill |->
         [variant |-> "Fill",
          fields |-> [sid |-> U32(0, 3),
                      msg |-> [trade_id |-> "d91bc706-ee49-470d-82d8-11418bda6fed",
                               order_id |-> "ee587a1c-8b87-4dcf-b721-9f6f790619fa",
                               market_ticker |-> "M1", is_taker |-> TRUE,
                               side |-> "No", yes_price |-> U32(0, 75),
                               no_price |-> U32(0, 25), count |-> U32(0, 278),
                               action |-> "buy", ts |-> U32(25511, 10501),
                               client_order_id |-> None,
                               post_position |-> U32(0, 500),
                               purchased_side |-> "No"]]],
     event_lifecycle |->
         [variant |-> "EventLifecycle",
          fields |-> [sid |-> U32(0, 1),
                      msg |-> [event_ticker |-> "KXTECHLAYOFF-25SEP",
                               title |-> "Tech layoffs up in Sep 2025?",
                               subtitle |-> "", collateral_return_type |-> "",
                               series_ticker |-> "", strike_date |-> None,
                               strike_period |-> None]]],
     subscribed |->
         [variant |-> "Subscribed",
          fields |-> [msg |-> [channel |-> "Ticker", sid |-> U32(0, 5)]]],
     error |->
         [variant |-> "Error",
          fields |-> [id |-> U32(0, 1),
                      msg |-> [code |-> U32(0, 6), msg |-> "Already subscribed"]]],
     ok |->
         [variant |-> "Ok",
          fields |-> [id |-> U32(0, 1), sid |-> U32(0, 5), seq |-> U32(0, 0),
                      market_tickers |-> <<"M1">>]]]

\* the plain frame, the frame with the further members, and the frame of
\* the test that carries the same values
C29_TextsOf(p) ==
    {p, WithExtras(p)}
    \cup (IF p = PlainTradeText THEN {TradeTestText} ELSE {})
    \cup (IF p = PlainTickerText THEN {TickerTestText} ELSE {})

C29_DecodesWithUnknownFields ==
    [][\A p \in PlainTexts : \A json \in C29_TextsOf(p) :
           (inbound /= <<>> /\ Head(inbound) = TextFrame(json)) =>
               sent' = Append(sent, OkEvent(C29_Expected[p.v.type.v]))]_vars

\* the trade of test_trade_message has been broadcast, and the ticker frame
\* of test_ticker_message, with its unknown members, is the next to be read
C29_Witness ==
    /\ sent = <<OkEvent(C29_Expected.trade)>>
    /\ inbound = <<TextFrame(TickerTestText)>>

\* C30: a market_lifecycle_v2 text is broadcast as the market-lifecycle
\* variant that the event_type of its payload names, with the values of the
\* payload, whether event_type is the first, a middle or the last member of
\* the payload; a created text decodes whichever of the optional metadata
\* members (event_ticker, strike_type, floor_strike, cap_strike,
\* custom_strike) it leaves out, each of them read as None.
C30_Expected ==
    [activated |->
         [variant |-> "Activated",
          fields |-> [market_ticker |-> "KXNFLFIRSTTD-25OCT05MIACAR-CARCHUBBARD30",
                      is_deactivated |-> FALSE]],
     deactivated |->
         [variant |-> "Deactivated",
          fields |-> [market_ticker |-> "KXNFLFIRSTTD-25OCT05MIACAR-CARCHUBBARD30",
                      is_deactivated |-> TRUE]],
     close_date_updated |->
         [variant |-> "CloseDateUpdated",
          fields |-> [market_ticker |-> "KXMLBWINS-NYM-25-T80",
                      close_ts |-> U32(26845, 39919)]],
     determined |->
         [variant |-> "Determined",
          fields |-> [market_ticker |-> "KXMLBGAME-25OCT01DETCLE-DET",
                      result |-> "no", determination_ts |-> U32(26845, 36718)]],
     settled |->
         [variant |-> "Settled",
          fields |-> [market_ticker |-> "KXMLBTOTAL-25OCT01DETCLE-5",
                      settled_ts |-> U32(26845, 38065)]]]

\* what test_market_lifecycle_created expects of each case, and the optional
\* metadata that the frame of the case carries
C30_Created ==
    <<[market_ticker |-> "KXWTAMATCH-25OCT02LYSGAU-LYS",
       open_ts |-> U32(26845, 38780), close_ts |-> U32(26864, 38896),
       optional |-> [event_ticker |-> "KXWTAMATCH-25OCT02LYSGAU",
                     strike_type |-> "structured",
                     custom_strike |->
                         JObjOrd(<<<<"tennis_competitor",
                                     JStr("6c69f42c-5e27-4cfd-a9ea-8eb9fbb0bd12")>>>>)]],
      [market_ticker |-> "KXSWIFTATTENDEVENT-25OCT04",
       open_ts |-> U32(26845, 61880), close_ts |-> U32(26850, 31200),
       optional |-> [event_ticker |-> "KXSWIFTATTENDEVENT-25OCT04"]],
      [market_ticker |-> "KXFDVLIGHTER-25DEC31-8",
       open_ts |-> U32(26848, 11072), close_ts |-> U32(26965, 22100),
       optional |-> [event_ticker |-> "KXFDVLIGHTER-25DEC31",
                     strike_type |-> "greater",
                     floor_strike |-> "7999999999.99"]]>>

\* the event is the created event of case c whose frame left out dropped
C30_IsCreated(ev, c, dropped) ==
    /\ ev.res = "Ok"
    /\ ev.val.variant = "MarketLifecycleV2"
    /\ ev.val.fields.sid = U32(0, 1)
    /\ ev.val.fields.msg.variant = "Created"
    /\ ev.val.fields.msg.fields.market_ticker = C30_Created[c].market_ticker
    /\ ev.val.fields.msg.fields.open_ts = C30_Created[c].open_ts
    /\ ev.val.fields.msg.fields.close_ts = C30_Created[c].close_ts
    /\ \A o \in OptionalMetadata :
           ev.val.fields.msg.fields.additional_metadata[o] =
               IF o \in DOMAIN C30_Created[c].optional \ dropped
               THEN Some(C30_Created[c].optional[o])
               ELSE None

\* every lifecycle frame with the event it is to decode to, and every
\* created frame with its case and the optional metadata it leaves out
C30_Frames ==
    {[text |-> LifecycleText(e, k), e |-> e] :
         e \in LifecycleEvents, k \in 1..3}
    \cup {[text |-> LifecycleText("determined", 4), e |-> "determined"]}
C30_CreatedFrames ==
    {[text |-> CreatedText(c, dropped, k), c |-> c, dropped |-> dropped] :
         c \in DOMAIN CreatedCases, dropped \in SUBSET OptionalMetadata,
         k \in {1, 3, 5}}

C30_SelectedByEventType ==
    [][/\ \A f \in C30_Frames :
              (inbound /= <<>> /\ Head(inbound) = TextFrame(f.text)) =>
                  sent' = Append(sent,
                                 OkEvent([variant |-> "MarketLifecycleV2",
                                          fields |-> [sid |-> U32(0, 1),
                                                      msg |-> C30_Expected[f.e]]]))
       /\ \A f \in C30_CreatedFrames :
              (inbound /= <<>> /\ Head(inbound) = TextFrame(f.text)) =>
                  /\ Len(sent') = Len(sent) + 1
                  /\ C30_IsCreated(sent'[Len(sent')], f.c, f.dropped)]_vars

\* a created frame that carries none of the optional metadata has been
\* broadcast as Created, and after it the determined frame as Determined
C30_Witness ==
    /\ Len(sent) = 2
    /\ C30_IsCreated(sent[1], 2, OptionalMetadata)
    /\ sent[2] = OkEvent([variant |-> "MarketLifecycleV2",
                          fields |-> [sid |-> U32(0, 1),
                                      msg |-> C30_Expected.determined]])

\* C35: the id counter never comes back to an id it has issued on the
\* connection: no two commands enqueued on it, however many were enqueued
\* before, carry the same id, also once the counter has reached the largest
\* value of its 32 bits.
C35_NoIdReissued ==
    \A i, j \in 1..Len(enq) :
        (i < j /\ "id" \in DOMAIN enq[i] /\ "id" \in DOMAIN enq[j])
            => enq[i].id /= enq[j].id

\* C31: every successful subscribe, unsubscribe or update_subscription call
\* enqueues exactly one command, whose id is the id the call returns, and no
\* two commands enqueued on the connection carry the same id.
C31_Ids == [i \in {k \in 1..Len(enq) : "id" \in DOMAIN enq[k]} |-> enq[i].id]

C31_OneCommandWithReturnedId ==
    /\ [][(ncalls' = ncalls + 1 /\ lastCall'.res = "Ok")
            => /\ Len(enq') = Len(enq) + 1
               /\ SubSeq(enq', 1, Len(enq)) = enq
               /\ to_kalshi' = Append(to_kalshi, enq'[Len(enq')])
               /\ enq'[Len(enq')].id = lastCall'.id
               /\ returned' = Append(returned, lastCall'.id)]_vars
    /\ [](\A i, j \in DOMAIN C31_Ids : i /= j => C31_Ids[i] /= C31_Ids[j])

\* C32: a subscribe, unsubscribe or update_subscription call made once the
\* supervisor has stopped returns the error of the failed send: it enqueues
\* nothing, leaves the id counter as it was and returns no id.
C32_IsCall == ncalls' = ncalls + 1

C32_FailedSendKeepsCounter ==
    [][(C32_IsCall /\ Stopped /\ lastCall'.res /= "ValidationError")
         => /\ lastCall'.res = "SendError"
            /\ next_cmd_id' = next_cmd_id
            /\ returned' = returned
            /\ enq' = enq
            /\ to_kalshi' = to_kalshi]_vars

\* an unsubscribe after the peer's close frame stopped the supervisor
C32_Witness ==
    /\ pc = "exited"
    /\ lastCall.op = "unsubscribe"
    /\ lastCall.res = "SendError"
    /\ returned = <<>>
    /\ next_cmd_id = FirstCmdId

\* C33: when the supervisor leaves its loop because the handle is gone (after
\* close, or dropped), and no transport error has occurred and the peer has
\* not closed, the command queue is empty and every command that was enqueued
\* has been written to the socket, in the order of the calls: no command for
\* which an id was returned is lost.
C33_TextFrames == SelectSeq(wire, LAMBDA f : f.kind = "Text")

\* the supervisor leaves its loop without having read a close frame
C33_ExitsOnSendersDropped == pc = "select" /\ pc' = "exited" /\ inbound' = inbound

C33_ShutdownDrainsQueue ==
    [][(C33_ExitsOnSendersDropped /\ errs = <<>>)
         => /\ to_kalshi = <<>>
            /\ C33_TextFrames = [i \in 1..Len(enq) |-> TextFrame(to_string(enq[i]))]
            /\ \A i \in 1..Len(returned) :
                   \E k \in 1..Len(wire) :
                       /\ wire[k].kind = "Text"
                       /\ "id" \in DOMAIN wire[k].json
                       /\ wire[k].json.id = returned[i]]_vars

\* two commands were enqueued, the handle was dropped, and the supervisor
\* has written both before it left its loop
C33_Witness ==
    /\ pc = "exited"
    /\ handle = "dropped"
    /\ errs = <<>>
    /\ Len(returned) = 2
    /\ Len(C33_TextFrames) = 2
    /\ sent = <<ErrEvent("ConnectionClosed")>>

\* C34: ConnectionClosed is the last value of the broadcast channel: once it
\* has been broadcast the supervisor is out of its loop, and no response, no
\* decoding error and no transport error is broadcast after it.
C34_ConnectionClosedIsLast ==
    /\ \A i \in 1..Len(sent) :
           sent[i] = ErrEvent("ConnectionClosed") => (i = Len(sent) /\ pc = "exited")
    /\ \A c \in ConsumerIds :
           (consumers[c].got > 0 /\ sent[consumers[c].got] = ErrEvent("ConnectionClosed"))
               => consumers[c].pos > Len(sent)

\* a consumer has read a trade and then ConnectionClosed, and nothing is left
\* for it to read
C34_Witness ==
    /\ Len(sent) = 2
    /\ sent[1].res = "Ok"
    /\ sent[2] = ErrEvent("ConnectionClosed")
    /\ \E c \in ConsumerIds : consumers[c].n = 2 /\ consumers[c].got = 2

\* C36: the supervisor's select takes its arms in the order command,
\* heartbeat tick, inbound item. An item of the socket is read, and a text
\* decoded and broadcast, only in a step in which no command is queued and no
\* tick is due; a selection made with a command queued takes that command and
\* leaves the tick and the socket alone, and the heartbeat arm, whose ping is
\* the only one written, is taken only with an empty queue.
C36_Selects ==
    /\ pc = "select"
    /\ \/ pc' /= pc
       \/ Len(to_kalshi') < Len(to_kalshi)
       \/ Len(inbound') < Len(inbound)
       \/ tickDue /\ ~tickDue'

C37_NoReplay ==
    /\ [](\A c \in ConsumerIds :
            consumers[c].st /= "none"
                => /\ consumers[c].pos >= consumers[c].from
                   /\ consumers[c].got > 0 => consumers[c].got >= consumers[c].from)
    /\ [][\A c \in ConsumerIds :
            (consumers[c].st = "none" /\ consumers'[c].st = "attached")
                => /\ consumers'[c].from = Len(sent) + 1
                   /\ consumers'[c].pos = Len(sent) + 1
                   /\ consumers'[c].n = 0]_vars
    /\ [][\A c \in ConsumerIds :
            consumers[c].st /= "none" => consumers'[c].from = consumers[c].from]_vars

\* a consumer created after the first event was broadcast has read the
\* second event and not the first
C37_Witness ==
    \E c \in ConsumerIds :
        /\ consumers[c].from = 2
        /\ consumers[c].n = 1
        /\ consumers[c].got = 2
        /\ Len(sent) = 2

\* C38: in a paginated fetch the first failure - of the auth headers, of the
\* request, or of decoding the response - yields exactly one error item and
\* ends the stream: the error is the last item, no request is made after it,
\* and the items yielded from earlier pages stay as they were.
C38_Polled == "yielded" \in DOMAIN fetch

\* the loop ends on a failure: from the head of the loop (the auth headers),
\* or while awaiting the response without a page having been decoded
C38_Fails ==
    /\ C38_Polled
    /\ fetch'.st = "done"
    /\ \/ fetch.st = "loop"
       \/ fetch.st = "waiting" /\ fetch'.responses = fetch.responses

C38_ErrorEndsStream ==
    /\ [](C38_Polled =>
            \A i \in 1..Len(fetch.yielded) :
                ~fetch.yielded[i].ok
                    => /\ i = Len(fetch.yielded)
                       /\ fetch.st \in {"done", "dropped"})
    /\ [][C38_Fails
            => /\ Len(fetch'.yielded) = Len(fetch.yielded) + 1
               /\ SubSeq(fetch'.yielded, 1, Len(fetch.yielded)) = fetch.yielded
               /\ ~fetch'.yielded[Len(fetch'.yielded)].ok
               /\ fetch'.requests = fetch.requests]_vars
    /\ [][(C38_Polled /\ fetch.yielded /= <<>>
             /\ ~fetch.yielded[Len(fetch.yielded)].ok)
            => /\ fetch'.requests = fetch.requests
               /\ fetch'.yielded = fetch.yielded]_vars
    /\ [][C38_Polled
            => /\ Len(fetch'.yielded) >= Len(fetch.yielded)
               /\ SubSeq(fetch'.yielded, 1, Len(fetch.yielded)) = fetch.yielded]_vars

\* the second request failed after the first page had yielded two markets
C38_Witness ==
    /\ C38_Polled
    /\ fetch.st = "done"
    /\ Len(fetch.requests) = 2
    /\ Len(fetch.responses) = 1
    /\ Len(fetch.yielded) = 3
    /\ fetch.yielded[1].ok
    /\ fetch.yielded[2].ok
    /\ ~fetch.yielded[3].ok

\* C39: the value of the access-timestamp header of a signed request is the
\* timestamp at the head of the message that was signed for it: the message
\* is that value followed by the method and the path, and the value is the
\* one clock reading of the call, in decimal.
C39_HeaderValues(headers, name) ==
    LET at == {i \in 1..Len(headers) : headers[i][1] = name}
    IN  {headers[i][2] : i \in at}

C39_TimestampHeaderIsSignedTimestamp ==
    /\ (signing.st = "signed" /\ signing.res.ok)
          => /\ Len(signing.signed) = 1
             /\ \E v \in C39_HeaderValues(signing.res.val, "KALSHI-ACCESS-TIMESTAMP") :
                    /\ C39_HeaderValues(signing.res.val, "KALSHI-ACCESS-TIMESTAMP") = {v}
                    /\ signing.signed[1] = v \o signing.in.method \o signing.in.path
                    /\ v = ToString(signing.in.ts)
    /\ (signing.st = "generated" /\ signing.auth.kind = "ApiKey" /\ signing.res.ok)
          => /\ Len(signing.signed) = 1
             /\ \E v \in C39_HeaderValues(signing.res.val, "kalshi-access-timestamp") :
                    /\ C39_HeaderValues(signing.res.val, "kalshi-access-timestamp") = {v}
                    /\ signing.signed[1] = v \o signing.in.method \o signing.in.path
                    /\ v = ToString(signing.in.ts)

\* a signed call: its timestamp header and the head of its signed message
C39_Witness ==
    /\ signing.st = "signed"
    /\ signing.res.ok
    /\ signing.res.val[3] = <<"KALSHI-ACCESS-TIMESTAMP", "1759350609">>
    /\ signing.signed = <<"1759350609GET/trade-api/v2/markets">>

====
